---- MODULE Spec2Model ----
(***************************************************************************)
(* State-machine model of the translation runtime of useTranslation:       *)
(* TranslationProvider (src/src/contexts/TranslationContext.tsx) and the   *)
(* useTranslation hook (src/src/hooks/useTranslation.ts).                  *)
(*                                                                         *)
(* React is modelled by what the provider relies on: a state hook holds    *)
(* the value the next render will see (queued updates are applied in call  *)
(* order, which is what React does with them at the next render), the      *)
(* callbacks t, loadNamespaces and loadTranslationsForNamespaces read the  *)
(* values captured by the last render (the variable closure), and passive  *)
(* effects run after the render that scheduled them.                       *)
(*                                                                         *)
(* JavaScript strings are sequences of one-character strings, so that      *)
(* key.split('.') and value[k] are computed, not assumed.                  *)
(***************************************************************************)
EXTENDS Integers, Sequences, FiniteSets, TLC

(***************************************************************************)
(* JavaScript values as they occur in parsed JSON and in property reads.   *)
(***************************************************************************)
Undefined == [type |-> "undefined"]
JNull == [type |-> "null"]
JStr(s) == [type |-> "string", chars |-> s]
JNum(n) == [type |-> "number", num |-> n]
JObj(f) == [type |-> "object", props |-> f]

\* A TypeError raised by a property read on undefined or null.
Thrown == [type |-> "thrown"]

\* typeof value === 'string'
IsString(v) == v.type = "string"

\* JavaScript truthiness, as used by `!value` and `if (hashedFilename)`.
Truthy(v) ==
    CASE v.type = "undefined" -> FALSE
      [] v.type = "null" -> FALSE
      [] v.type = "string" -> v.chars # <<>>
      [] v.type = "number" -> v.num # 0
      [] OTHER -> TRUE

Digit == ("0" :> 0) @@ ("1" :> 1) @@ ("2" :> 2) @@ ("3" :> 3) @@ ("4" :> 4)
         @@ ("5" :> 5) @@ ("6" :> 6) @@ ("7" :> 7) @@ ("8" :> 8) @@ ("9" :> 9)

\* The property name "length".
LengthName == <<"l", "e", "n", "g", "t", "h">>

\* value[k]: an own property of an object, a character or the length of a
\* string, a TypeError on undefined and null, undefined otherwise.  Members
\* inherited from the prototypes (constructor, toString, ...) are outside the
\* key alphabet of the model.
GetProp(v, k) ==
    CASE v.type = "undefined" -> Thrown
      [] v.type = "null" -> Thrown
      [] v.type = "object" ->
            IF k \in DOMAIN v.props THEN v.props[k] ELSE Undefined
      [] v.type = "string" ->
            IF Len(k) = 1 /\ k[1] \in DOMAIN Digit /\ Digit[k[1]] < Len(v.chars)
            THEN JStr(<<v.chars[Digit[k[1]] + 1]>>)
            ELSE IF k = LengthName THEN JNum(Len(v.chars)) ELSE Undefined
      [] OTHER -> Undefined

\* key.split('.'): the segments between the dots; "" splits into [""].
RECURSIVE SplitFrom(_, _, _)
SplitFrom(s, i, cur) ==
    IF i > Len(s) THEN <<cur>>
    ELSE IF s[i] = "." THEN <<cur>> \o SplitFrom(s, i + 1, <<>>)
    ELSE SplitFrom(s, i + 1, Append(cur, s[i]))

Split(s) == SplitFrom(s, 1, <<>>)

\* obj[name] on a plain object used as a map: undefined when absent.
Get(m, name) == IF name \in DOMAIN m THEN m[name] ELSE Undefined

\* {...prev, ...next}
Spread(prev, next) ==
    [name \in DOMAIN prev \cup DOMAIN next |->
        IF name \in DOMAIN next THEN next[name] ELSE prev[name]]

(***************************************************************************)
(* Provider props.                                                         *)
(***************************************************************************)
defaultLanguage == "en"

Languages == {"en", "es", "fr"}

\* The isSupportedLanguage prop: "fr" can be selected with setLanguage but
\* is not accepted from storage.
isSupportedLanguage(lang) == lang \in {"en", "es"}

Namespaces == {"common", "user"}

\* The defaultTranslations prop: { common: { n: { b: "Bk" }, s: "Sv", z: null } }
defaultTranslations ==
    [ns \in {"common"} |->
        JObj((<<"n">> :> JObj(<<"b">> :> JStr(<<"B", "k">>)))
             @@ (<<"s">> :> JStr(<<"S", "v">>))
             @@ (<<"z">> :> JNull))]

\* Object.keys(defaultTranslations)
DefaultKeys == <<"common">>

localesPath == "/locales"
localesHashedPath == "/locales-hashed"

\* `${language}/${namespace}`
ManifestKey(lang, ns) == <<lang, "/", ns>>

\* The translationManifest prop.
translationManifest ==
    (ManifestKey("es", "common") :> JStr(<<"es/common.ab12cd34.json">>))

\* translationManifest[manifestKey]
ManifestGet(manifestKey) ==
    IF manifestKey \in DOMAIN translationManifest
    THEN translationManifest[manifestKey] ELSE Undefined

(***************************************************************************)
(* The files behind the URLs: what a 2xx response parses to.               *)
(***************************************************************************)
Remote ==
    (<<"es", "common">> :> JObj(<<"n">> :> JObj(<<"b">> :> JStr(<<"A", "t">>))))
    @@ (<<"es", "user">> :> JObj(<<"h">> :> JStr(<<"H", "o">>)))
    @@ (<<"fr", "common">> :> JObj((<<"n">> :> JObj(<<"b">> :> JStr(<<"R", "e">>)))
                                   @@ (<<"s">> :> JStr(<<"S", "a">>))))
    @@ (<<"fr", "user">> :> JNull)

\* The ways one fetch can settle.
Outcomes == {"ok", "notOk", "networkError", "parseError"}

\* Whether the handling of a settled fetch calls console.error: the catch
\* block does, the branch for a response that is not ok does not.
consoleError(outcome) == outcome \in {"networkError", "parseError"}

\* `Failed to load translation for ${namespace}:`
FailedToLoad(namespace) == <<"Failed to load translation for", namespace>>

(***************************************************************************)
(* Bounds of the model.                                                    *)
(***************************************************************************)
\* setLanguage calls that change the language, plus batches started by
\* loadNamespaces and t.
MaxOps == 2
\* The same, in the runs checked for progress.
MaxFairOps == 1

(***************************************************************************)
(* State.                                                                  *)
(***************************************************************************)
VARIABLES
    language,           \* useState: the value the next render sees
    translations,       \* useState
    loadedNamespaces,   \* useState: a Set, kept in insertion order
    isLoading,          \* useState
    closure,            \* the hook values captured by the last render
    pendingEffects,     \* provider effects scheduled by the last render
    storage,            \* localStorage item 'language'
    batches,            \* the calls of loadTranslationsForNamespaces, in call order
    lastFailed,         \* per namespace: the batch whose fetch of it failed,
                        \* when that is its most recent fetch completion; else 0
    switches,           \* number of setLanguage calls that changed language
    console,            \* what the last step wrote with console.error
    opsLimit,           \* how many language changes and request batches this
                        \* run may hold
    locales,            \* build: the source locales directory
    hashed,             \* build: the hashed output directory
    manifest,           \* build: the JSON manifest file, <<>> before it is written
    lastCall,           \* the last call made to the build script or the hook
    edits               \* build: number of writes to the locales directory

runtimeVars == <<language, translations, loadedNamespaces, isLoading, closure,
                 pendingEffects, storage, batches, lastFailed, switches, console,
                 opsLimit>>

buildVars == <<locales, hashed, manifest, lastCall, edits>>

vars == <<runtimeVars, buildVars>>

\* No call has been made yet.
NoCall == [fn |-> "(none)"]

\* The runtime runs apart from the build script: its files and its manifest
\* are the props and the Remote given above.
NoBuild ==
    /\ locales = <<>>
    /\ hashed = <<>>
    /\ manifest = <<>>
    /\ lastCall = NoCall
    /\ edits = 0

NoItem == "(none)"

\* What the hooks of the provider hold, as a render captures it.
HookState ==
    [language |-> language, translations |-> translations,
     loadedNamespaces |-> loadedNamespaces, isLoading |-> isLoading]

Range(seq) == {seq[i] : i \in DOMAIN seq}

\* loadedNamespaces.has(ns)
Has(set, ns) == ns \in Range(set)

\* The insertion done on an array: [...prev, ...items].
SetAdd_Append(prev, items) == prev \o items

\* new Set([...prev, ...items]): insertion order, no duplicates.
RECURSIVE SetAdd(_, _)
SetAdd(prev, items) ==
    IF items = <<>> THEN prev
    ELSE SetAdd(IF Has(prev, Head(items)) THEN prev ELSE Append(prev, Head(items)),
                Tail(items))

\* namespaces.filter(pred)
RECURSIVE FilterNotIn(_, _)
FilterNotIn(items, set) ==
    IF items = <<>> THEN <<>>
    ELSE (IF Has(set, Head(items)) THEN <<>> ELSE <<Head(items)>>)
         \o FilterNotIn(Tail(items), set)

\* getInitialLanguage taking every stored string for a language.
getInitialLanguage_Unchecked(savedLanguage) ==
    IF savedLanguage # NoItem /\ savedLanguage # ""
    THEN savedLanguage ELSE defaultLanguage

\* getInitialLanguage, with window defined: getItem gives null for no item,
\* and null and "" are falsy.
getInitialLanguage(savedLanguage) ==
    IF savedLanguage # NoItem /\ savedLanguage # "" /\ isSupportedLanguage(savedLanguage)
    THEN savedLanguage ELSE defaultLanguage

\* The URL when the manifest is not consulted.
FetchUrl_NoManifest(lang, ns) == <<localesPath, "/", lang, "/", ns, ".json">>

\* The URL a fetch for (lang, ns) uses.
FetchUrl(lang, ns) ==
    LET hashedFilename == ManifestGet(ManifestKey(lang, ns))
    IN  IF Truthy(hashedFilename)
        THEN <<localesHashedPath, "/">> \o hashedFilename.chars
        ELSE <<localesPath, "/", lang, "/", ns, ".json">>

\* The mount with the load effect left for the first change of language.
Mount_NoLoadEffect ==
    /\ storage \in {NoItem, ""} \cup Languages
    /\ language = getInitialLanguage(storage)
    /\ translations = defaultTranslations
    /\ loadedNamespaces = DefaultKeys
    /\ isLoading = FALSE
    /\ closure = [language |-> getInitialLanguage(storage),
                  translations |-> defaultTranslations,
                  loadedNamespaces |-> DefaultKeys, isLoading |-> FALSE]
    /\ pendingEffects = {"persist"}
    /\ batches = <<>>
    /\ lastFailed = [ns \in Namespaces |-> 0]
    /\ switches = 0
    /\ console = <<>>
    /\ NoBuild

\* The provider after its first render: the hooks hold their initial values
\* and both effects are scheduled.
Mount ==
    /\ storage \in {NoItem, ""} \cup Languages
    /\ language = getInitialLanguage(storage)
    /\ translations = defaultTranslations
    /\ loadedNamespaces = DefaultKeys
    /\ isLoading = FALSE
    /\ closure = [language |-> getInitialLanguage(storage),
                  translations |-> defaultTranslations,
                  loadedNamespaces |-> DefaultKeys, isLoading |-> FALSE]
    /\ pendingEffects = {"persist", "load"}
    /\ batches = <<>>
    /\ lastFailed = [ns \in Namespaces |-> 0]
    /\ switches = 0
    /\ console = <<>>
    /\ NoBuild

Init == Mount /\ opsLimit = MaxOps

\* The record of one fetch(url).
Fetch(id, lang, ns) ==
    [batch |-> id, language |-> lang, namespace |-> ns, url |-> FetchUrl(lang, ns)]

\* The fetches, each made for the language that is current when it is
\* issued rather than the one its call captured.
Fetches_CurrentLanguage ==
    UNION {{Fetch(id, language, batches[id].namespaces[i]) :
                i \in 1..batches[id].index} : id \in DOMAIN batches}

\* Every fetch(url) issued so far: a call has issued the fetches of its
\* namespaces up to the one it is awaiting.
Fetches ==
    UNION {{Fetch(id, batches[id].language, batches[id].namespaces[i]) :
                i \in 1..batches[id].index} : id \in DOMAIN batches}

\* The batches started by loadNamespaces and t so far.
Requests == {id \in DOMAIN batches : batches[id].origin # "effect"}

\* Whether one more language change or request batch stays within MaxOps.
WithinOps == switches + Cardinality(Requests) < opsLimit

\* A call of loadTranslationsForNamespaces from loadNamespaces or t starts a
\* batch unless the captured language is the default.
RequestAllowed == closure.language # defaultLanguage => WithinOps

\* loadTranslationsForNamespaces without its early return for the default
\* language.
loadTranslationsForNamespaces_NoDefaultReturn(namespacesToLoad, origin) ==
    /\ isLoading' = TRUE
    /\ batches' = Append(batches,
           [language |-> closure.language, namespaces |-> namespacesToLoad,
            index |-> 1, newTranslations |-> <<>>, fallenBack |-> {},
            pc |-> "fetch", origin |-> origin])
    /\ UNCHANGED translations

\* loadTranslationsForNamespaces issuing the fetches of all its namespaces at
\* once (Promise.all over the list) and awaiting the last.
loadTranslationsForNamespaces_AllAtOnce(namespacesToLoad, origin) ==
    IF closure.language = defaultLanguage
    THEN UNCHANGED <<isLoading, translations, batches>>
    ELSE IF namespacesToLoad = <<>>
    THEN /\ translations' = Spread(translations, <<>>)
         /\ isLoading' = FALSE
         /\ UNCHANGED batches
    ELSE /\ isLoading' = TRUE
         /\ batches' = Append(batches,
                [language |-> closure.language, namespaces |-> namespacesToLoad,
                 index |-> Len(namespacesToLoad), newTranslations |-> <<>>,
                 fallenBack |-> {}, pc |-> "fetch", origin |-> origin])
         /\ UNCHANGED translations

\* loadTranslationsForNamespaces up to its first await.  The language is the
\* one the callback captured.  An empty list runs to the end at once.
loadTranslationsForNamespaces(namespacesToLoad, origin) ==
    IF closure.language = defaultLanguage
    THEN UNCHANGED <<isLoading, translations, batches>>
    ELSE IF namespacesToLoad = <<>>
    THEN /\ translations' = Spread(translations, <<>>)
         /\ isLoading' = FALSE
         /\ UNCHANGED batches
    ELSE /\ isLoading' = TRUE
         /\ batches' = Append(batches,
                [language |-> closure.language, namespaces |-> namespacesToLoad,
                 index |-> 1, newTranslations |-> <<>>, fallenBack |-> {},
                 pc |-> "fetch", origin |-> origin])
         /\ UNCHANGED translations

\* setLanguage(lang), also putting the default bundle back at once.
SetLanguage_ResetsTranslations(lang) ==
    /\ lang # language
    /\ WithinOps
    /\ language' = lang
    /\ switches' = switches + 1
    /\ translations' = defaultTranslations
    /\ UNCHANGED <<loadedNamespaces, isLoading, closure,
                   pendingEffects, storage, batches, lastFailed>>
    /\ console' = <<>>
    /\ UNCHANGED <<opsLimit, buildVars>>

\* setLanguage(lang), the state setter the context exposes.  A call with
\* the value the hook already holds changes nothing.
SetLanguage(lang) ==
    /\ lang # language
    /\ WithinOps
    /\ language' = lang
    /\ switches' = switches + 1
    /\ UNCHANGED <<translations, loadedNamespaces, isLoading, closure,
                   pendingEffects, storage, batches, lastFailed>>
    /\ console' = <<>>
    /\ UNCHANGED <<opsLimit, buildVars>>

\* A render of the provider: the callbacks are rebuilt over the current hook
\* values; the two effects are scheduled when language, their dependency,
\* changed.  React runs the scheduled effects before it renders again.
Render ==
    /\ pendingEffects = {}
    /\ closure # HookState
    /\ closure' = HookState
    /\ pendingEffects' =
          IF language # closure.language THEN {"persist", "load"} ELSE {}
    /\ UNCHANGED <<language, translations, loadedNamespaces, isLoading,
                   storage, batches, lastFailed, switches>>
    /\ console' = <<>>
    /\ UNCHANGED <<opsLimit, buildVars>>

\* The persist effect, not writing.
PersistEffect_NoWrite ==
    /\ "persist" \in pendingEffects
    /\ pendingEffects' = pendingEffects \ {"persist"}
    /\ UNCHANGED <<language, translations, loadedNamespaces, isLoading,
                   closure, storage, batches, lastFailed, switches>>
    /\ console' = <<>>
    /\ UNCHANGED <<opsLimit, buildVars>>

\* The persist effect, writing only a language isSupportedLanguage accepts.
PersistEffect_SupportedOnly ==
    /\ "persist" \in pendingEffects
    /\ storage' = IF isSupportedLanguage(closure.language)
                  THEN closure.language ELSE storage
    /\ pendingEffects' = pendingEffects \ {"persist"}
    /\ UNCHANGED <<language, translations, loadedNamespaces, isLoading,
                   closure, batches, lastFailed, switches>>
    /\ console' = <<>>
    /\ UNCHANGED <<opsLimit, buildVars>>

\* useEffect(() => localStorage.setItem('language', language), [language])
PersistEffect ==
    /\ "persist" \in pendingEffects
    /\ storage' = closure.language
    /\ pendingEffects' = pendingEffects \ {"persist"}
    /\ UNCHANGED <<language, translations, loadedNamespaces, isLoading,
                   closure, batches, lastFailed, switches>>
    /\ console' = <<>>
    /\ UNCHANGED <<opsLimit, buildVars>>

\* The effect, loading only the namespaces of the default bundle.
LoadEffect_DefaultKeysOnly ==
    /\ pendingEffects = {"load"}
    /\ pendingEffects' = {}
    /\ IF closure.language = defaultLanguage
       THEN /\ translations' = defaultTranslations
            /\ UNCHANGED <<isLoading, batches>>
       ELSE loadTranslationsForNamespaces(DefaultKeys, "effect")
    /\ UNCHANGED <<language, loadedNamespaces, closure, storage, lastFailed, switches>>
    /\ console' = <<>>
    /\ UNCHANGED <<opsLimit, buildVars>>

\* The effect, without the reset for the default language.
LoadEffect_NoReset ==
    /\ pendingEffects = {"load"}
    /\ pendingEffects' = {}
    /\ IF closure.language = defaultLanguage
       THEN UNCHANGED <<translations, isLoading, batches>>
       ELSE loadTranslationsForNamespaces(closure.loadedNamespaces, "effect")
    /\ UNCHANGED <<language, loadedNamespaces, closure, storage, lastFailed, switches>>
    /\ console' = <<>>
    /\ UNCHANGED <<opsLimit, buildVars>>

\* The effect that loads translations when the language changes.
LoadEffect ==
    /\ pendingEffects = {"load"}
    /\ pendingEffects' = {}
    /\ IF closure.language = defaultLanguage
       THEN /\ translations' = defaultTranslations
            /\ UNCHANGED <<isLoading, batches>>
       ELSE loadTranslationsForNamespaces(closure.loadedNamespaces, "effect")
    /\ UNCHANGED <<language, loadedNamespaces, closure, storage, lastFailed, switches>>
    /\ console' = <<>>
    /\ UNCHANGED <<opsLimit, buildVars>>

\* loadNamespaces(namespaces), called by the effect of useTranslation or
\* through the context.
loadNamespaces(namespaces) ==
    LET newNamespaces == FilterNotIn(namespaces, closure.loadedNamespaces)
    IN  /\ IF Len(newNamespaces) > 0
           THEN /\ RequestAllowed
                /\ loadedNamespaces' = SetAdd(loadedNamespaces, newNamespaces)
                /\ loadTranslationsForNamespaces(newNamespaces, "loadNamespaces")
           ELSE UNCHANGED <<loadedNamespaces, isLoading, translations, batches>>
        /\ UNCHANGED <<language, closure, pendingEffects, storage, lastFailed, switches>>
        /\ console' = <<>>
        /\ UNCHANGED <<opsLimit, buildVars>>

\* t loading a namespace without adding it to loadedNamespaces.
t_NoMark(namespace) ==
    /\ IF ~Has(closure.loadedNamespaces, namespace)
       THEN /\ RequestAllowed
            /\ UNCHANGED loadedNamespaces
            /\ IF closure.language # defaultLanguage
               THEN loadTranslationsForNamespaces(<<namespace>>, "t")
               ELSE UNCHANGED <<isLoading, translations, batches>>
       ELSE UNCHANGED <<loadedNamespaces, isLoading, translations, batches>>
    /\ UNCHANGED <<language, closure, pendingEffects, storage, lastFailed, switches>>
    /\ console' = <<>>
    /\ UNCHANGED <<opsLimit, buildVars>>

\* The side effect of t(key, namespace); the key plays no part in it.
t(namespace) ==
    /\ IF ~Has(closure.loadedNamespaces, namespace)
       THEN /\ RequestAllowed
            /\ loadedNamespaces' = SetAdd(loadedNamespaces, <<namespace>>)
            /\ IF closure.language # defaultLanguage
               THEN loadTranslationsForNamespaces(<<namespace>>, "t")
               ELSE UNCHANGED <<isLoading, translations, batches>>
       ELSE UNCHANGED <<loadedNamespaces, isLoading, translations, batches>>
    /\ UNCHANGED <<language, closure, pendingEffects, storage, lastFailed, switches>>
    /\ console' = <<>>
    /\ UNCHANGED <<opsLimit, buildVars>>

\* The value t(key, namespace) returns.
RECURSIVE Walk(_, _)
Walk(value, keyPath) ==
    IF keyPath = <<>> THEN value
    ELSE IF value.type = "undefined" THEN Undefined
    ELSE LET next == GetProp(value, Head(keyPath))
         IN  IF next.type = "thrown" THEN Thrown ELSE Walk(next, Tail(keyPath))

\* What a call that throws leaves its caller with, in place of a string.
Uncaught == <<"TypeError">>

\* The lookup of t without its try/catch.
Lookup_NoCatch(trans, key, namespace) ==
    LET own == Get(trans, namespace)
        value == IF ~Truthy(own) /\ Truthy(Get(defaultTranslations, namespace))
                 THEN defaultTranslations[namespace] ELSE own
        found == Walk(value, Split(key))
    IN  IF found.type = "thrown" THEN Uncaught
        ELSE IF IsString(found) THEN found.chars ELSE key

\* The lookup of t, walking the default bundle when the walk of the
\* namespace's own data does not end at a string.
Lookup_PerKeyFallback(trans, key, namespace) ==
    LET own == Get(trans, namespace)
        value == IF ~Truthy(own) /\ Truthy(Get(defaultTranslations, namespace))
                 THEN defaultTranslations[namespace] ELSE own
        found == Walk(value, Split(key))
        default == Walk(Get(defaultTranslations, namespace), Split(key))
    IN  IF IsString(found) THEN found.chars
        ELSE IF IsString(default) THEN default.chars ELSE key

\* The lookup of t: a TypeError raised by the walk is caught and the key is
\* returned, as it is for a value that is not a string.
Lookup(trans, key, namespace) ==
    LET own == Get(trans, namespace)
        value == IF ~Truthy(own) /\ Truthy(Get(defaultTranslations, namespace))
                 THEN defaultTranslations[namespace] ELSE own
        found == Walk(value, Split(key))
    IN  IF IsString(found) THEN found.chars ELSE key

\* Settle, with a failed fetch ending the whole call: nothing is merged and
\* the remaining namespaces are not fetched.
Settle_AbortOnFailure(id, outcome) ==
    LET b == batches[id]
        namespace == b.namespaces[b.index]
        newTranslations ==
            Spread(b.newTranslations, namespace :> Remote[<<b.language, namespace>>])
    IN  /\ b.pc = "fetch"
        /\ outcome = "ok" => <<b.language, namespace>> \in DOMAIN Remote
        /\ lastFailed' = [lastFailed EXCEPT
                             ![namespace] = IF outcome = "ok" THEN 0 ELSE id]
        /\ IF outcome # "ok"
           THEN /\ isLoading' = FALSE
                /\ batches' = [batches EXCEPT ![id] = [b EXCEPT !.pc = "done"]]
                /\ UNCHANGED translations
           ELSE IF b.index < Len(b.namespaces)
           THEN /\ batches' = [batches EXCEPT ![id] =
                        [b EXCEPT !.index = b.index + 1,
                                  !.newTranslations = newTranslations]]
                /\ UNCHANGED <<translations, isLoading>>
           ELSE /\ translations' = Spread(translations, newTranslations)
                /\ isLoading' = FALSE
                /\ batches' = [batches EXCEPT ![id] =
                        [b EXCEPT !.newTranslations = newTranslations, !.pc = "done"]]
        /\ UNCHANGED <<language, loadedNamespaces, closure, pendingEffects,
                       storage, switches>>
        /\ console' = IF consoleError(outcome)
                      THEN <<FailedToLoad(namespace)>> ELSE <<>>
        /\ UNCHANGED <<opsLimit, buildVars>>

\* Settle with the end of the call changed: discardStale drops the result of
\* a call whose language is no longer current, stuckOnFailure leaves isLoading
\* as it is when the last fetch of the call failed.
SettleVariant(id, outcome, discardStale, stuckOnFailure) ==
    LET b == batches[id]
        namespace == b.namespaces[b.index]
        data == IF outcome = "ok" THEN Remote[<<b.language, namespace>>]
                ELSE Get(defaultTranslations, namespace)
        newTranslations == Spread(b.newTranslations, namespace :> data)
        fallenBack == IF outcome = "ok" THEN b.fallenBack \ {namespace}
                      ELSE b.fallenBack \cup {namespace}
    IN  /\ b.pc = "fetch"
        /\ outcome = "ok" => <<b.language, namespace>> \in DOMAIN Remote
        /\ lastFailed' = [lastFailed EXCEPT
                             ![namespace] = IF outcome = "ok" THEN 0 ELSE id]
        /\ IF b.index < Len(b.namespaces)
           THEN /\ batches' = [batches EXCEPT ![id] =
                        [b EXCEPT !.index = b.index + 1,
                                  !.newTranslations = newTranslations,
                                  !.fallenBack = fallenBack]]
                /\ UNCHANGED <<translations, isLoading>>
           ELSE /\ translations' =
                      IF discardStale /\ language # b.language THEN translations
                      ELSE Spread(translations, newTranslations)
                /\ isLoading' =
                      IF stuckOnFailure /\ outcome # "ok" THEN isLoading ELSE FALSE
                /\ batches' = [batches EXCEPT ![id] =
                        [b EXCEPT !.newTranslations = newTranslations,
                                  !.fallenBack = fallenBack, !.pc = "done"]]
        /\ UNCHANGED <<language, loadedNamespaces, closure, pendingEffects,
                       storage, switches>>
        /\ console' = IF consoleError(outcome)
                      THEN <<FailedToLoad(namespace)>> ELSE <<>>
        /\ UNCHANGED <<opsLimit, buildVars>>

\* Settle with setTranslations changed: eachFetch merges newTranslations into
\* the state after every fetch of the call instead of once after the loop,
\* replaceAll sets the state to newTranslations without spreading prev.
SettleMerging(id, outcome, eachFetch, replaceAll) ==
    LET b == batches[id]
        namespace == b.namespaces[b.index]
        data == IF outcome = "ok" THEN Remote[<<b.language, namespace>>]
                ELSE Get(defaultTranslations, namespace)
        newTranslations == Spread(b.newTranslations, namespace :> data)
        fallenBack == IF outcome = "ok" THEN b.fallenBack \ {namespace}
                      ELSE b.fallenBack \cup {namespace}
        merged == IF replaceAll THEN newTranslations
                  ELSE Spread(translations, newTranslations)
    IN  /\ b.pc = "fetch"
        /\ outcome = "ok" => <<b.language, namespace>> \in DOMAIN Remote
        /\ lastFailed' = [lastFailed EXCEPT
                             ![namespace] = IF outcome = "ok" THEN 0 ELSE id]
        /\ IF b.index < Len(b.namespaces)
           THEN /\ batches' = [batches EXCEPT ![id] =
                        [b EXCEPT !.index = b.index + 1,
                                  !.newTranslations = newTranslations,
                                  !.fallenBack = fallenBack]]
                /\ translations' = IF eachFetch THEN merged ELSE translations
                /\ UNCHANGED isLoading
           ELSE /\ translations' = merged
                /\ isLoading' = FALSE
                /\ batches' = [batches EXCEPT ![id] =
                        [b EXCEPT !.newTranslations = newTranslations,
                                  !.fallenBack = fallenBack, !.pc = "done"]]
        /\ UNCHANGED <<language, loadedNamespaces, closure, pendingEffects,
                       storage, switches>>
        /\ console' = IF consoleError(outcome)
                      THEN <<FailedToLoad(namespace)>> ELSE <<>>
        /\ UNCHANGED <<opsLimit, buildVars>>

\* Settle, with setTranslations inside the loop.
Settle_MergeEachFetch(id, outcome) == SettleMerging(id, outcome, TRUE, FALSE)

\* Settle, with setTranslations(newTranslations) in place of the merge.
Settle_ReplaceAll(id, outcome) == SettleMerging(id, outcome, FALSE, TRUE)

\* Settle, ignoring the result of a call made for a language that is no
\* longer current.
Settle_DiscardStale(id, outcome) == SettleVariant(id, outcome, TRUE, FALSE)

\* Settle, without the finally block when the last fetch failed.
Settle_StuckOnFailure(id, outcome) == SettleVariant(id, outcome, FALSE, TRUE)

\* One fetch of batch id settles and the async function runs on to its next
\* await or to its end.  `await response.json()` touches only locals and is
\* folded into the step.  fallenBack records which entries of newTranslations
\* were taken from defaultTranslations.
Settle(id, outcome) ==
    LET b == batches[id]
        namespace == b.namespaces[b.index]
        data == IF outcome = "ok" THEN Remote[<<b.language, namespace>>]
                ELSE Get(defaultTranslations, namespace)
        newTranslations == Spread(b.newTranslations, namespace :> data)
        fallenBack == IF outcome = "ok" THEN b.fallenBack \ {namespace}
                      ELSE b.fallenBack \cup {namespace}
    IN  /\ b.pc = "fetch"
        /\ outcome = "ok" => <<b.language, namespace>> \in DOMAIN Remote
        /\ lastFailed' = [lastFailed EXCEPT
                             ![namespace] = IF outcome = "ok" THEN 0 ELSE id]
        /\ IF b.index < Len(b.namespaces)
           THEN /\ batches' = [batches EXCEPT ![id] =
                        [b EXCEPT !.index = b.index + 1,
                                  !.newTranslations = newTranslations,
                                  !.fallenBack = fallenBack]]
                /\ UNCHANGED <<translations, isLoading>>
           ELSE /\ translations' = Spread(translations, newTranslations)
                /\ isLoading' = FALSE
                /\ batches' = [batches EXCEPT ![id] =
                        [b EXCEPT !.newTranslations = newTranslations,
                                  !.fallenBack = fallenBack, !.pc = "done"]]
        /\ UNCHANGED <<language, loadedNamespaces, closure, pendingEffects,
                       storage, switches>>
        /\ console' = IF consoleError(outcome)
                      THEN <<FailedToLoad(namespace)>> ELSE <<>>
        /\ UNCHANGED <<opsLimit, buildVars>>

\* The namespace lists components pass to useTranslation.
NamespaceLists == {<<"user">>, <<"common", "user">>}

Next ==
    \/ \E lang \in Languages : SetLanguage(lang)
    \/ Render
    \/ PersistEffect
    \/ LoadEffect
    \/ \E namespaces \in NamespaceLists : loadNamespaces(namespaces)
    \/ \E namespace \in Namespaces : t(namespace)
    \/ \E id \in DOMAIN batches : \E outcome \in Outcomes : Settle(id, outcome)

Spec == Init /\ [][Next]_vars

\* The mounted provider, for the runs checked under fairness.
FairInit == Mount /\ opsLimit = MaxFairOps

\* React runs a scheduled render and the scheduled effects, and every fetch
\* settles.
FairSpec ==
    /\ FairInit
    /\ [][Next]_vars
    /\ WF_vars(Render)
    /\ WF_vars(PersistEffect)
    /\ WF_vars(LoadEffect)
    /\ \A id \in 1..(MaxFairOps + 1) :
          WF_vars(id \in DOMAIN batches /\ \E outcome \in Outcomes : Settle(id, outcome))

(***************************************************************************)
(* The useTranslation hook (src/src/hooks/useTranslation.ts).              *)
(***************************************************************************)
\* useContext(TranslationContext) with and without a provider above.
NoContext == "(undefined)"
ProviderContext == "(context)"

\* The optional namespace argument of the hook's t, left out.
Omitted == "(omitted)"

\* The hook with the check for a missing provider placed after useEffect.
useTranslation_LateGuard(context, namespaces) ==
    [fn |-> "useTranslation", args |-> <<context, namespaces>>,
     threw |-> context = NoContext,
     requested |-> <<namespaces>>,
     returned |-> context # NoContext]

\* One call of the hook: whether it threw, the loadNamespaces calls its
\* effect was scheduled to make, and whether it returned { ...rest, t }.
useTranslation(context, namespaces) ==
    IF context = NoContext
    THEN [fn |-> "useTranslation", args |-> <<context, namespaces>>,
          threw |-> TRUE, requested |-> <<>>, returned |-> FALSE]
    ELSE [fn |-> "useTranslation", args |-> <<context, namespaces>>,
          threw |-> FALSE, requested |-> <<namespaces>>, returned |-> TRUE]

\* The wrapper defaulting to the namespace that was loaded first.
nsToUse_FirstLoaded(namespace, namespaces) ==
    IF namespace # Omitted /\ namespace # "" THEN namespace
    ELSE closure.loadedNamespaces[1]

\* namespace || namespaces[0]
nsToUse(namespace, namespaces) ==
    IF namespace # Omitted /\ namespace # "" THEN namespace ELSE namespaces[1]

\* What the t returned by useTranslation(namespaces) returns.
hookT(namespaces, key, namespace) ==
    Lookup(closure.translations, key, nsToUse(namespace, namespaces))

\* The keys t is called with: "n.b", "n.b.0", "n.b.length", "n", "s", "z.b",
\* "q.b", "n.q.b", "h" and "".
Keys ==
    {<<"n", ".", "b">>, <<"n", ".", "b", ".", "0">>,
     <<"n", ".", "b", ".", "l", "e", "n", "g", "t", "h">>,
     <<"n">>, <<"s">>, <<"z", ".", "b">>, <<"q", ".", "b">>,
     <<"n", ".", "q", ".", "b">>, <<"h">>, <<>>}

\* What translations may hold for a namespace when t is called: nothing,
\* null (a file whose JSON is null), a string or a number in place of the
\* object, the default data with its null node, loaded data, and an object
\* with a number and a nested null on the paths of the keys.
TreeShapes ==
    {Undefined, JNull, JStr(<<"S", "v">>), JNum(0),
     defaultTranslations["common"], Remote[<<"es", "user">>],
     JObj((<<"n">> :> JNum(7)) @@ (<<"q">> :> JObj(<<"b">> :> JNull)))}

\* The orders in which the namespaces may have been loaded.
LoadOrders == {<<"common">>, <<"common", "user">>, <<"user", "common">>}

\* A component calls the hook.
UseTranslation(context, namespaces) ==
    /\ lastCall' = useTranslation(context, namespaces)
    /\ UNCHANGED <<locales, hashed, manifest, edits>>
    /\ UNCHANGED runtimeVars

\* A component calls the t of useTranslation(namespaces) while it renders.
CallT(namespaces, key, namespace) ==
    /\ lastCall' = [fn |-> "t", args |-> <<namespaces, key, namespace>>,
                    out |-> hookT(namespaces, key, namespace)]
    /\ UNCHANGED <<locales, hashed, manifest, edits>>
    /\ UNCHANGED runtimeVars

\* The values a render of the provider has captured, drawn from the trees
\* and load orders above; the calls below read them and change nothing.
HookInit ==
    /\ \E common, user \in TreeShapes : \E order \in LoadOrders :
          /\ translations = [ns \in Namespaces |->
                                IF ns = "common" THEN common ELSE user]
          /\ loadedNamespaces = order
          /\ closure = [language |-> defaultLanguage,
                        translations |-> translations,
                        loadedNamespaces |-> order, isLoading |-> FALSE]
    /\ language = defaultLanguage
    /\ isLoading = FALSE
    /\ pendingEffects = {}
    /\ storage = NoItem
    /\ batches = <<>>
    /\ lastFailed = [ns \in Namespaces |-> 0]
    /\ switches = 0
    /\ console = <<>>
    /\ opsLimit = 0
    /\ NoBuild

HookNext ==
    \/ \E context \in {NoContext, ProviderContext} :
          \E namespaces \in NamespaceLists : UseTranslation(context, namespaces)
    \/ \E namespaces \in NamespaceLists : \E key \in Keys :
          \E namespace \in Namespaces \cup {Omitted} :
             CallT(namespaces, key, namespace)

HookSpec == HookInit /\ [][HookNext]_vars

(***************************************************************************)
(* The build script hashTranslations (src/unnamed/part_002).  File names   *)
(* are sequences of pieces, ".json" being one piece, so that endsWith and  *)
(* replace are computed on them.                                           *)
(***************************************************************************)
\* File contents.  ContentA and ContentB are two files whose MD5 digests
\* begin with the same eight hexadecimal digits.
ContentA == "{\"title\":\"Hello 19339\"}\n"
ContentB == "{\"title\":\"Hello 19576\"}\n"
ContentC == "{\"title\":\"Hello\"}\n"
Contents == {ContentA, ContentB, ContentC}

\* crypto.createHash('md5').update(fileContent).digest('hex'), as its first
\* eight digits and the rest.
md5Hex(fileContent) ==
    CASE fileContent = ContentA -> <<"86cc27f5", "4c9adc6b3c0fd617238ecb37">>
      [] fileContent = ContentB -> <<"86cc27f5", "ae34e40ab7837ac032b7f869">>
      [] fileContent = ContentC -> <<"e976b582", "(rest)">>

File(bytes, mtime) == [kind |-> "file", bytes |-> bytes, mtime |-> mtime]
Directory(entries) == [kind |-> "dir", entries |-> entries]

LangDirs == {"en", "es"}
FileNames ==
    {<<"common", ".json">>, <<"my", ".json", "ld", ".json">>, <<"notes", ".txt">>}

\* Writes to the locales directory between builds.
MaxEdits == 2

\* file.endsWith('.json')
endsWithJson(file) == file # <<>> /\ file[Len(file)] = ".json"

\* file.replace('.json', ''): the first occurrence is removed.
RECURSIVE replaceJson(_)
replaceJson(file) ==
    IF file = <<>> THEN <<>>
    ELSE IF Head(file) = ".json" THEN Tail(file)
    ELSE <<Head(file)>> \o replaceJson(Tail(file))

\* generateHash(filePath): the file is read and its digest cut to 8 digits.
generateHash(lang, file) == md5Hex(locales[lang].entries[file].bytes)[1]

\* `${fileNameWithoutExt}.${hash}.json`
hashedFileName(lang, file) ==
    replaceJson(file) \o <<".", generateHash(lang, file), ".json">>

\* The directories of the locales root.
langDirs == {item \in DOMAIN locales : locales[item].kind = "dir"}

\* The .json files of a language directory.
jsonFiles(lang) == {file \in DOMAIN locales[lang].entries : endsWithJson(file)}

\* The run without the clean up of lines 210-224: every old file is kept.
hashedLangDir_NoCleanup(lang) ==
    LET old == IF lang \in DOMAIN hashed THEN hashed[lang] ELSE <<>>
        made == {hashedFileName(lang, file) : file \in jsonFiles(lang)}
    IN  [name \in DOMAIN old \cup made |->
            IF name \in made
            THEN LET file == CHOOSE f \in jsonFiles(lang) :
                                 hashedFileName(lang, f) = name
                 IN  File(locales[lang].entries[file].bytes, edits)
            ELSE old[name]]

\* The hashed directory of one language after a run: the old .json files
\* are removed and every .json file of the source is copied under its hashed
\* name.
hashedLangDir(lang) ==
    LET old == IF lang \in DOMAIN hashed THEN hashed[lang] ELSE <<>>
        kept == {name \in DOMAIN old : ~endsWithJson(name)}
        made == {hashedFileName(lang, file) : file \in jsonFiles(lang)}
    IN  [name \in kept \cup made |->
            IF name \in made
            THEN LET file == CHOOSE f \in jsonFiles(lang) :
                                 hashedFileName(lang, f) = name
                 IN  File(locales[lang].entries[file].bytes, edits)
            ELSE old[name]]

\* manifest[`${lang}/${fileNameWithoutExt}`] = `${lang}/${hashedFileName}`
manifestEntries ==
    LET sources == {<<lang, file>> : lang \in langDirs, file \in FileNames}
        found == {src \in sources : src[2] \in jsonFiles(src[1])}
        keyOf(src) == <<src[1], "/">> \o replaceJson(src[2])
    IN  [key \in {keyOf(src) : src \in found} |->
            LET src == CHOOSE x \in found : keyOf(x) = key
            IN  <<src[1], "/">> \o hashedFileName(src[1], src[2])]

\* The key and the value of the build time entry of the JSON manifest.
BuildTimeKey == <<"_buildTime">>
BuildTime == <<"(toISOString)">>

\* The files the run logs as "Removed old hashed file", with their language.
removedOldHashedFiles ==
    {old \in (langDirs \cap DOMAIN hashed) \X UNION {DOMAIN hashed[l] : l \in DOMAIN hashed} :
        old[2] \in DOMAIN hashed[old[1]] /\ endsWithJson(old[2])}

\* hashTranslations(localesDir, hashedDir, manifestPath, tsManifestPath).
HashTranslations ==
    /\ hashed' = [lang \in DOMAIN hashed \cup langDirs |->
                     IF lang \in langDirs THEN hashedLangDir(lang) ELSE hashed[lang]]
    /\ manifest' = manifestEntries @@ (BuildTimeKey :> BuildTime)
    /\ lastCall' = [fn |-> "hashTranslations", removed |-> removedOldHashedFiles]
    /\ UNCHANGED <<locales, edits>>
    /\ UNCHANGED runtimeVars

\* generateTSManifest: the manifest without its build time.
tsManifest == [key \in DOMAIN manifest \ {BuildTimeKey} |-> manifest[key]]

\* The URL loadTranslationsForNamespaces fetches for (lang, namespace) when
\* the translationManifest prop is manifestObject and localesHashedPath is the
\* root of the hashed directory; the namespace is a sequence of pieces as file
\* names are.
FetchUrlWith(manifestObject, lang, namespace) ==
    LET manifestKey == <<lang, "/">> \o namespace
        hashedFilename == IF manifestKey \in DOMAIN manifestObject
                          THEN manifestObject[manifestKey] ELSE <<>>
    IN  IF hashedFilename # <<>>
        THEN <<localesHashedPath, "/">> \o hashedFilename
        ELSE <<localesPath, "/", lang, "/">> \o namespace \o <<".json">>

\* A call of generateHash on a file of the locales directory.
GenerateHash(lang, file) ==
    /\ lang \in langDirs
    /\ file \in DOMAIN locales[lang].entries
    /\ lastCall' = [fn |-> "generateHash", args |-> <<lang, file>>,
                    out |-> generateHash(lang, file)]
    /\ UNCHANGED <<locales, hashed, manifest, edits>>
    /\ UNCHANGED runtimeVars

\* A translator writes a file of a language directory; the write is stamped
\* with a new modification time.
WriteFile(lang, file, bytes) ==
    /\ edits < MaxEdits
    /\ lang \in langDirs
    /\ locales' = [locales EXCEPT ![lang] =
           Directory((file :> File(bytes, edits + 1)) @@ locales[lang].entries)]
    /\ edits' = edits + 1
    /\ lastCall' = [fn |-> "writeFile", args |-> <<lang, file>>]
    /\ UNCHANGED <<hashed, manifest>>
    /\ UNCHANGED runtimeVars

\* A translator deletes a file of a language directory.
RemoveFile(lang, file) ==
    /\ edits < MaxEdits
    /\ lang \in langDirs
    /\ file \in DOMAIN locales[lang].entries
    /\ locales' = [locales EXCEPT ![lang] =
           Directory([f \in DOMAIN locales[lang].entries \ {file} |->
                         locales[lang].entries[f]])]
    /\ edits' = edits + 1
    /\ lastCall' = [fn |-> "removeFile", args |-> <<lang, file>>]
    /\ UNCHANGED <<hashed, manifest>>
    /\ UNCHANGED runtimeVars

\* A locales directory with one file per language and a file beside the
\* language directories; the runtime is not running.
LibInit ==
    /\ \E bytes \in Contents :
          locales = ("en" :> Directory(<<"common", ".json">> :> File(ContentA, 0)))
                    @@ ("es" :> Directory(<<"common", ".json">> :> File(bytes, 0)))
                    @@ ("README.md" :> File(ContentC, 0))
    /\ hashed = <<>>
    /\ manifest = <<>>
    /\ lastCall = NoCall
    /\ edits = 0
    /\ language = defaultLanguage
    /\ translations = defaultTranslations
    /\ loadedNamespaces = DefaultKeys
    /\ isLoading = FALSE
    /\ closure = [language |-> defaultLanguage,
                  translations |-> defaultTranslations,
                  loadedNamespaces |-> DefaultKeys, isLoading |-> FALSE]
    /\ pendingEffects = {}
    /\ storage = NoItem
    /\ batches = <<>>
    /\ lastFailed = [ns \in Namespaces |-> 0]
    /\ switches = 0
    /\ console = <<>>
    /\ opsLimit = 0

LibNext ==
    \/ HashTranslations
    \/ \E lang \in LangDirs : \E file \in FileNames : GenerateHash(lang, file)
    \/ \E lang \in LangDirs : \E file \in FileNames : \E bytes \in Contents :
          WriteFile(lang, file, bytes)
    \/ \E lang \in LangDirs : \E file \in FileNames : RemoveFile(lang, file)

LibSpec == LibInit /\ [][LibNext]_vars

(***************************************************************************)
(* The helpers interpolate and formatPlural (src/unnamed/part_006) and     *)
(* createLanguageConfig (src/unnamed/part_000), as calls on drawn inputs;  *)
(* the generation script follows them.                                     *)
(***************************************************************************)
DigitChar == <<"0", "1", "2", "3", "4", "5", "6", "7", "8", "9">>

\* The decimal digits of a natural number.
RECURSIVE Decimal(_)
Decimal(n) ==
    IF n < 10 THEN <<DigitChar[n + 1]>>
    ELSE Decimal(n \div 10) \o <<DigitChar[(n % 10) + 1]>>

\* String(value) for the integers and the strings.
StringOf(value) ==
    CASE value.type = "string" -> value.chars
      [] value.type = "number" ->
            IF value.num < 0 THEN <<"-">> \o Decimal(0 - value.num)
            ELSE Decimal(value.num)

\* The source of new RegExp(`{{${key}}}`, 'g'): the key is pasted into the
\* pattern as it is.  The braces are literals here (no quantifier is formed
\* by keys without digits and commas, which are the keys of the model).
RegExpSource(key) == <<"{", "{">> \o key \o <<"}", "}">>

\* Whether the pattern matches the text at position i.  Of the pattern
\* syntax the model has the literal characters and ".", any character.
MatchesAt(pattern, text, i) ==
    /\ i + Len(pattern) - 1 <= Len(text)
    /\ \A j \in 1..Len(pattern) : pattern[j] = "." \/ pattern[j] = text[i + j - 1]

\* The replacement string of String.prototype.replace, expanded for one
\* match: "$$" stands for "$" and "$&" for the matched text; a "$" before
\* another character is itself ("$5" with a pattern without groups).
RECURSIVE GetSubstitution(_, _)
GetSubstitution(matched, replacement) ==
    IF replacement = <<>> THEN <<>>
    ELSE IF Len(replacement) >= 2 /\ replacement[1] = "$" /\ replacement[2] = "$"
    THEN <<"$">> \o GetSubstitution(matched, Tail(Tail(replacement)))
    ELSE IF Len(replacement) >= 2 /\ replacement[1] = "$" /\ replacement[2] = "&"
    THEN matched \o GetSubstitution(matched, Tail(Tail(replacement)))
    ELSE <<Head(replacement)>> \o GetSubstitution(matched, Tail(replacement))

\* text.replace(pattern, replacement) with the g flag, with only the first
\* match replaced.
RECURSIVE ReplaceFirstFrom(_, _, _, _)
ReplaceFirstFrom(text, pattern, replacement, i) ==
    IF i > Len(text) THEN <<>>
    ELSE IF MatchesAt(pattern, text, i)
    THEN GetSubstitution(SubSeq(text, i, i + Len(pattern) - 1), replacement)
         \o SubSeq(text, i + Len(pattern), Len(text))
    ELSE <<text[i]>> \o ReplaceFirstFrom(text, pattern, replacement, i + 1)

\* text.replace(pattern, replacement) with the g flag: the matches are taken
\* from left to right without overlap and each is replaced.
RECURSIVE ReplaceFrom(_, _, _, _)
ReplaceFrom(text, pattern, replacement, i) ==
    IF i > Len(text) THEN <<>>
    ELSE IF MatchesAt(pattern, text, i)
    THEN GetSubstitution(SubSeq(text, i, i + Len(pattern) - 1), replacement)
         \o ReplaceFrom(text, pattern, replacement, i + Len(pattern))
    ELSE <<text[i]>> \o ReplaceFrom(text, pattern, replacement, i + 1)

\* Object.entries(variables).reduce(...): one global replace per entry, in
\* the order of the entries, each on the result of the one before.
RECURSIVE interpolate(_, _)
interpolate(text, variables) ==
    IF variables = <<>> THEN text
    ELSE interpolate(ReplaceFrom(text, RegExpSource(Head(variables)[1]),
                                 StringOf(Head(variables)[2]), 1),
                     Tail(variables))

\* /{{count}}/
CountPattern == <<"{", "{", "c", "o", "u", "n", "t", "}", "}">>

\* formatPlural replacing the first {{count}} only.
formatPlural_FirstOnly(count, one, other) ==
    IF count = 1 THEN one
    ELSE ReplaceFirstFrom(other, CountPattern, StringOf(JNum(count)), 1)

\* formatPlural(count, one, other)
formatPlural(count, one, other) ==
    IF count = 1 THEN one
    ELSE ReplaceFrom(other, CountPattern, StringOf(JNum(count)), 1)

\* The codes of the languages, each once.
RECURSIVE getSupportedLanguageCodes_Unique(_)
getSupportedLanguageCodes_Unique(languages) ==
    IF languages = <<>> THEN <<>>
    ELSE LET rest == getSupportedLanguageCodes_Unique(Tail(languages))
         IN  IF \E i \in DOMAIN rest : rest[i] = Head(languages).code
             THEN rest ELSE <<Head(languages).code>> \o rest

\* languages.some((l) => l.code === lang), the isSupportedLanguage of the
\* helper.
configIsSupportedLanguage(languages, lang) ==
    \E i \in DOMAIN languages : languages[i].code = lang

\* languages.map((lang) => lang.code)
getSupportedLanguageCodes(languages) ==
    [i \in DOMAIN languages |-> languages[i].code]

\* languages.find((lang) => lang.code === code): the first entry with the
\* code, undefined when there is none.
getLanguageByCode(languages, code) ==
    IF \E i \in DOMAIN languages : languages[i].code = code
    THEN languages[CHOOSE i \in DOMAIN languages :
                      /\ languages[i].code = code
                      /\ \A j \in 1..(i - 1) : languages[j].code # code]
    ELSE Undefined

\* getDefaultLanguage of the helper made with the default given.
getDefaultLanguage(given) == given

\* The texts interpolate is called with: "Hi {{n}}!", "{{n}}{{n}}",
\* "{{a}} {{n}}", "{{x}}", "{{n}", "{n}" and "".
Texts ==
    {<<"H", "i", " ", "{", "{", "n", "}", "}", "!">>,
     <<"{", "{", "n", "}", "}", "{", "{", "n", "}", "}">>,
     <<"{", "{", "a", "}", "}", " ", "{", "{", "n", "}", "}">>,
     <<"{", "{", "x", "}", "}">>, <<"{", "{", "n", "}">>,
     <<"{", "n", "}">>, <<>>}

\* The names of the variables: "n", "a" and ".".
VariableNames == {<<"n">>, <<"a">>, <<".">>}

\* The values of the variables: "J", "", "$5", "$$", "$&", 5 and -12.
VariableValues ==
    {JStr(<<"J">>), JStr(<<>>), JStr(<<"$", "5">>), JStr(<<"$", "$">>),
     JStr(<<"$", "&">>), JNum(5), JNum(0 - 12)}

\* The most entries a variables object has.
MaxVariables == 2

\* The variables objects, as the entries Object.entries lists: up to
\* MaxVariables entries with different names.
VariablesObjects ==
    {variables \in UNION {[1..n -> VariableNames \X VariableValues] : n \in 0..MaxVariables} :
        \A i, j \in DOMAIN variables : i # j => variables[i][1] # variables[j][1]}

\* The counts formatPlural is called with: -MaxCount .. MaxCount.
MaxCount == 12
Counts == (0 - MaxCount)..MaxCount

\* The singular forms: "item", "{{count}} item" and "".
Ones == {<<"i", "t", "e", "m">>, <<"{", "{", "c", "o", "u", "n", "t", "}", "}", " ", "i", "t", "e", "m">>, <<>>}

\* The plural forms: "{{count}} items", "{{count}}/{{count}}", "items",
\* "{{count}", "{{Count}}" and "{{{count}}}".
Others ==
    {<<"{", "{", "c", "o", "u", "n", "t", "}", "}", " ", "i", "t", "e", "m", "s">>,
     <<"{", "{", "c", "o", "u", "n", "t", "}", "}", "/", "{", "{", "c", "o", "u", "n", "t", "}", "}">>,
     <<"i", "t", "e", "m", "s">>, <<"{", "{", "c", "o", "u", "n", "t", "}">>,
     <<"{", "{", "C", "o", "u", "n", "t", "}", "}">>,
     <<"{", "{", "{", "c", "o", "u", "n", "t", "}", "}", "}">>}

\* { code, name, nativeName }
LanguageConfig(code, name, nativeName) ==
    [code |-> code, name |-> name, nativeName |-> nativeName]

\* The entries a languages array is made of; two of them have the code es.
LanguageConfigs ==
    {LanguageConfig("en", "English", "English"),
     LanguageConfig("es", "Spanish", "Espanol"),
     LanguageConfig("es", "Castilian", "Castellano"),
     LanguageConfig("fr", "French", "Francais")}

\* The most entries a languages array has.
MaxLanguages == 3

LanguageArrays == UNION {[1..n -> LanguageConfigs] : n \in 0..MaxLanguages}

\* The codes the helper is asked about: "de" and "" are in no entry.
Codes == {"en", "es", "fr", "de", ""}

\* A call of interpolate on a text and a variables object.
Interpolate ==
    /\ lastCall = NoCall
    /\ \E text \in Texts : \E variables \in VariablesObjects :
          lastCall' = [fn |-> "interpolate", args |-> <<text, variables>>,
                       out |-> interpolate(text, variables)]
    /\ UNCHANGED <<locales, hashed, manifest, edits>>
    /\ UNCHANGED runtimeVars

\* A call of formatPlural on a count and the two forms.
FormatPlural ==
    /\ lastCall = NoCall
    /\ \E count \in Counts : \E one \in Ones : \E other \in Others :
          lastCall' = [fn |-> "formatPlural", args |-> <<count, one, other>>,
                       out |-> formatPlural(count, one, other)]
    /\ UNCHANGED <<locales, hashed, manifest, edits>>
    /\ UNCHANGED runtimeVars

\* createLanguageConfig(languages, given) and a call of each function of the
\* helper it returns, isSupportedLanguage and getLanguageByCode on lang.  The
\* array, the default and lang are drawn independently.
CreateLanguageConfig ==
    /\ lastCall = NoCall
    /\ \E languages \in LanguageArrays : \E given \in Codes : \E lang \in Codes :
          lastCall' = [fn |-> "createLanguageConfig", args |-> <<languages, given>>,
                       lang |-> lang,
                       isSupportedLanguage |-> configIsSupportedLanguage(languages, lang),
                       getSupportedLanguageCodes |-> getSupportedLanguageCodes(languages),
                       getLanguageByCode |-> getLanguageByCode(languages, lang),
                       getDefaultLanguage |-> getDefaultLanguage(given)]
    /\ UNCHANGED <<locales, hashed, manifest, edits>>
    /\ UNCHANGED runtimeVars

(***************************************************************************)
(* The generation script (src/unnamed/part_002, lines 12-145):             *)
(* generateTranslationTypes and generateDefaultTranslations.  A parsed     *)
(* JSON object is the list of its entries in the order of Object.entries,  *)
(* and the generated text is a list of lines of characters.                *)
(***************************************************************************)
\* The object a JSON file parses to, by its entries.
JDict(entries) == [type |-> "object", entries |-> entries]

\* ' '.repeat(indent)
Spaces(indent) == [i \in 1..indent |-> " "]

\* generateInterfaceProperties(obj, indent): for each entry a line with the
\* key as it is, followed by ": string;" or, for an object, by ": {", the
\* lines of the object two columns further in, and "};".
RECURSIVE generateInterfaceProperties(_, _)
generateInterfaceProperties(obj, indent) ==
    IF obj = <<>> THEN <<>>
    ELSE LET key == Head(obj)[1]
             value == Head(obj)[2]
             indentStr == Spaces(indent)
         IN  (IF value.type = "object"
              THEN <<indentStr \o key \o <<":", " ", "{">>>>
                   \o generateInterfaceProperties(value.entries, indent + 2)
                   \o <<indentStr \o <<"}", ";">>>>
              ELSE <<indentStr \o key \o <<":", " ", "s", "t", "r", "i", "n", "g", ";">>>>)
             \o generateInterfaceProperties(Tail(obj), indent)

\* The string literal JSON.stringify writes for a string: the quotation mark
\* and the backslash are escaped.
RECURSIVE Escape(_)
Escape(chars) ==
    IF chars = <<>> THEN <<>>
    ELSE (IF Head(chars) \in {"\"", "\\"} THEN <<"\\", Head(chars)>>
          ELSE <<Head(chars)>>) \o Escape(Tail(chars))

Quote(chars) == <<"\"">> \o Escape(chars) \o <<"\"">>

\* The lines JSON.stringify(value, null, 2) writes for the members of an
\* object: "key": value, a comma after every member but the last, a nested
\* object on lines of its own two columns further in, an empty one as {}.
RECURSIVE stringifyMembers(_, _)
stringifyMembers(entries, indent) ==
    IF entries = <<>> THEN <<>>
    ELSE LET key == Head(entries)[1]
             value == Head(entries)[2]
             comma == IF Len(entries) > 1 THEN <<",">> ELSE <<>>
             start == Spaces(indent) \o Quote(key) \o <<":", " ">>
         IN  (IF value.type = "object"
              THEN IF value.entries = <<>>
                   THEN <<start \o <<"{", "}">> \o comma>>
                   ELSE <<start \o <<"{">>>>
                        \o stringifyMembers(value.entries, indent + 2)
                        \o <<Spaces(indent) \o <<"}">> \o comma>>
              ELSE <<start \o Quote(value.chars) \o comma>>)
             \o stringifyMembers(Tail(entries), indent)

\* JSON.stringify(value, null, 2) of an object.
stringify(entries) ==
    IF entries = <<>> THEN <<(<<"{", "}">>)>>
    ELSE <<(<<"{">>)>> \o stringifyMembers(entries, 2) \o <<(<<"}">>)>>

\* files.filter((file) => file.endsWith('.json')), in the order of readdir.
RECURSIVE jsonEntries(_)
jsonEntries(dir) ==
    IF dir = <<>> THEN <<>>
    ELSE (IF endsWithJson(Head(dir)[1]) THEN <<Head(dir)>> ELSE <<>>)
         \o jsonEntries(Tail(dir))

\* path.basename(file, '.json') of a file that ends with .json.
basename(file) == SubSeq(file, 1, Len(file) - 1)

\* generateTranslationTypes: for every namespace, the lines between
\* "export interface ... {" and "}".
generateTranslationTypes(dir) ==
    [i \in DOMAIN jsonEntries(dir) |->
        <<basename(jsonEntries(dir)[i][1]),
          generateInterfaceProperties(jsonEntries(dir)[i][2].entries, 2)>>]

\* generateDefaultTranslations: the object literal written after
\* "export const defaultTranslations: Translations = ".
generateDefaultTranslations(dir) ==
    stringify([i \in DOMAIN jsonEntries(dir) |->
                  <<basename(jsonEntries(dir)[i][1]), jsonEntries(dir)[i][2]>>])

\* {"title": "Hello"}
TitleFile ==
    <<<<<<"t", "i", "t", "l", "e">>, JStr(<<"H", "e", "l", "l", "o">>)>>>>

\* {"nav": {"home": "Home", "back": "Back"}, "title": "T"}
NavFile ==
    <<<<<<"n", "a", "v">>, JDict(<<<<<<"h", "o", "m", "e">>, JStr(<<"H", "o", "m", "e">>)>>, <<<<"b", "a", "c", "k">>, JStr(<<"B", "a", "c", "k">>)>>>>)>>, <<<<"t", "i", "t", "l", "e">>, JStr(<<"T">>)>>>>

\* {"a": {"b": {"c": "deep"}}}
DeepFile ==
    <<<<<<"a">>, JDict(<<<<<<"b">>, JDict(<<<<<<"c">>, JStr(<<"d", "e", "e", "p">>)>>>>)>>>>)>>>>

\* {"first-name": "N"}
HyphenFile ==
    <<<<<<"f", "i", "r", "s", "t", "-", "n", "a", "m", "e">>, JStr(<<"N">>)>>>>

\* {"say": "a\"b\\"}, the value being a"b\
QuoteFile ==
    <<<<<<"s", "a", "y">>, JStr(<<"a", "\"", "b", "\\">>)>>>>

\* {}
EmptyFile ==
    <<>>

\* {"e": {}, "t": "x"}
EmptyNodeFile ==
    <<<<<<"e">>, JDict(<<>>)>>, <<<<"t">>, JStr(<<"x">>)>>>>

\* {"user": {"first name": "N", "age": "3"}}
SpaceFile ==
    <<<<<<"u", "s", "e", "r">>, JDict(<<<<<<"f", "i", "r", "s", "t", " ", "n", "a", "m", "e">>, JStr(<<"N">>)>>, <<<<"a", "g", "e">>, JStr(<<"3">>)>>>>)>>>>

\* {"x1": "v", "_y": "w"}
DigitFile ==
    <<<<<<"x", "1">>, JStr(<<"v">>)>>, <<<<"_", "y">>, JStr(<<"w">>)>>>>

\* What the JSON files of the model parse to.
ParsedFiles ==
    {JDict(TitleFile), JDict(NavFile), JDict(DeepFile), JDict(HyphenFile),
     JDict(QuoteFile), JDict(EmptyFile), JDict(EmptyNodeFile),
     JDict(SpaceFile), JDict(DigitFile)}

\* The locales directories of a language: common.json alone, or common.json,
\* notes.txt and user.json.
LocalesDirs ==
    {<<(<<(<<"common", ".json">>), common>>)>> : common \in ParsedFiles}
    \cup {<<(<<(<<"common", ".json">>), common>>),
            (<<(<<"notes", ".txt">>), JStr(<<"n">>)>>),
            (<<(<<"user", ".json">>), user>>)>> :
             common \in ParsedFiles, user \in ParsedFiles}

\* A run of generateTranslationTypes on a locales directory.
GenerateTranslationTypes ==
    /\ lastCall = NoCall
    /\ \E dir \in LocalesDirs :
          lastCall' = [fn |-> "generateTranslationTypes", args |-> <<dir>>,
                       out |-> generateTranslationTypes(dir)]
    /\ UNCHANGED <<locales, hashed, manifest, edits>>
    /\ UNCHANGED runtimeVars

\* A run of generateDefaultTranslations on a locales directory.
GenerateDefaultTranslations ==
    /\ lastCall = NoCall
    /\ \E dir \in LocalesDirs :
          lastCall' = [fn |-> "generateDefaultTranslations", args |-> <<dir>>,
                       out |-> generateDefaultTranslations(dir)]
    /\ UNCHANGED <<locales, hashed, manifest, edits>>
    /\ UNCHANGED runtimeVars

\* No provider is mounted and no build has run.  The calls read their
\* arguments only, so each is made from the state where none has been made.
UtilInit ==
    /\ language = defaultLanguage
    /\ translations = defaultTranslations
    /\ loadedNamespaces = DefaultKeys
    /\ isLoading = FALSE
    /\ closure = [language |-> defaultLanguage,
                  translations |-> defaultTranslations,
                  loadedNamespaces |-> DefaultKeys, isLoading |-> FALSE]
    /\ pendingEffects = {}
    /\ storage = NoItem
    /\ batches = <<>>
    /\ lastFailed = [ns \in Namespaces |-> 0]
    /\ switches = 0
    /\ console = <<>>
    /\ opsLimit = 0
    /\ NoBuild

UtilNext ==
    \/ Interpolate
    \/ FormatPlural
    \/ CreateLanguageConfig
    \/ GenerateTranslationTypes
    \/ GenerateDefaultTranslations

UtilSpec == UtilInit /\ [][UtilNext]_vars

(***************************************************************************)
(* Properties.                                                             *)
(***************************************************************************)
\* Everything the last render captured is current and its effects have run.
Rendered == closure = HookState /\ pendingEffects = {}

\* The fetches for (lang, ns) issued by calls of the given origins.
FetchesBy(origins, lang, ns) ==
    {f \in Fetches : /\ f.language = lang
                     /\ f.namespace = ns
                     /\ batches[f.batch].origin \in origins}

NonDefault == Languages \ {defaultLanguage}

\* C1: while the language stays the same non-default language, the calls of
\* loadNamespaces issue at most one fetch for a namespace, however they are
\* spaced between renders and whichever components make them.
C1_LoadNamespacesFetchesOnce ==
    switches = 0 =>
        \A lang \in NonDefault : \A ns \in Namespaces :
            Cardinality(FetchesBy({"loadNamespaces"}, lang, ns)) <= 1

\* C2: once a call of t has issued the fetch for (language, ns), no other call
\* of t or loadNamespaces issues a second one, render pass or not.
C2_NoSecondFetchAfterT ==
    switches = 0 =>
        \A lang \in NonDefault : \A ns \in Namespaces :
            FetchesBy({"t"}, lang, ns) # {} =>
                Cardinality(FetchesBy({"t", "loadNamespaces"}, lang, ns)) <= 1

\* C3: whenever the current language is the default language, translations
\* is exactly the default bundle (taken at its most favourable: the language
\* change has been rendered and its effects have run).
C3_DefaultLanguageHasDefaultBundle ==
    (Rendered /\ language = defaultLanguage) => translations = defaultTranslations

\* C4: a call of t or loadNamespaces made while the current language is the
\* default language issues no fetch.
C4_NoFetchUnderDefault ==
    [][(/\ closure.language = defaultLanguage
        /\ \/ \E namespace \in Namespaces : t(namespace)
           \/ \E namespaces \in NamespaceLists : loadNamespaces(namespaces))
       => (Fetches' = Fetches /\ batches' = batches)]_vars

\* C4 witness: a namespace was requested under the default language and no
\* fetch was issued for it.
C4_Witness ==
    /\ closure.language = defaultLanguage
    /\ switches = 0
    /\ Has(loadedNamespaces, "user")
    /\ Fetches = {}

\* No (language, namespace) has been fetched twice.
NoDuplicateFetch ==
    \A f, g \in Fetches :
        (f.language = g.language /\ f.namespace = g.namespace) => f = g

\* C5: isLoading is true whenever some batch is outstanding (shown to fail
\* even when no namespace is fetched twice and the language never changes).
C5_LoadingWhileOutstanding ==
    (NoDuplicateFetch /\ switches = 0) =>
        ((\E id \in DOMAIN batches : batches[id].pc = "fetch") => isLoading = TRUE)

\* The node a dot-path leads to in a translation tree, stepping from a
\* mapping to the entry it has under the next segment; undefined when the
\* path leaves the tree.
RECURSIVE NodeAt(_, _)
NodeAt(node, path) ==
    IF path = <<>> THEN node
    ELSE IF node.type = "object" /\ Head(path) \in DOMAIN node.props
    THEN NodeAt(node.props[Head(path)], Tail(path))
    ELSE Undefined

\* The dot-path of key leads to a string leaf of the tree.
LeadsToString(tree, key) == NodeAt(tree, Split(key)).type = "string"

\* Every batch has run to its end.
AllSettled == \A id \in DOMAIN batches : batches[id].pc = "done"

\* C6: when the most recent fetch completion for ns is a failure and the
\* batch of that fetch has completed, t(key, ns) returns for every key what
\* it returns from the default bundle (taken at its most favourable: the
\* failed fetch was for the language that is current and is the only fetch
\* issued for that language and ns, and the result is rendered).
C6_FallbackAfterFailure ==
    \A ns \in Namespaces :
        (/\ Rendered
         /\ lastFailed[ns] # 0
         /\ batches[lastFailed[ns]].pc = "done"
         /\ batches[lastFailed[ns]].language = closure.language
         /\ \A f \in Fetches :
               (f.language = closure.language /\ f.namespace = ns)
               => f.batch = lastFailed[ns])
        => \A key \in Keys :
              Lookup(closure.translations, key, ns)
                  = Lookup(defaultTranslations, key, ns)

\* C7: a key whose dot-path leads to a string neither in the loaded data nor
\* in the default data of the namespace is returned unchanged.
C7_MissingKeyReturnsKey ==
    \A ns \in Namespaces : \A key \in Keys :
        (/\ ~LeadsToString(Get(closure.translations, ns), key)
         /\ ~LeadsToString(Get(defaultTranslations, ns), key))
        => Lookup(closure.translations, key, ns) = key

\* C8: when a fetch for (language, ns) got a 2xx response with JSON D, its
\* batch has completed and the language never changed, t(key, ns) returns
\* D's string for every key that leads to a string in D (taken at its most
\* favourable: every batch has completed and the result is rendered).
C8_LoadedDataIsReturned ==
    \A ns \in Namespaces :
        (/\ Rendered
         /\ AllSettled
         /\ switches = 0
         /\ \E id \in DOMAIN batches :
               /\ batches[id].language = closure.language
               /\ ns \in DOMAIN batches[id].newTranslations
               /\ ns \notin batches[id].fallenBack)
        => \A key \in Keys :
              LeadsToString(Remote[<<closure.language, ns>>], key)
              => Lookup(closure.translations, key, ns)
                    = NodeAt(Remote[<<closure.language, ns>>], Split(key)).chars

\* The URL the manifest rule gives for (lang, ns).
ManifestRuleUrl(lang, ns) ==
    IF ManifestKey(lang, ns) \in DOMAIN translationManifest
    THEN <<localesHashedPath, "/">> \o translationManifest[ManifestKey(lang, ns)].chars
    ELSE <<localesPath, "/", lang, "/", ns, ".json">>

\* C9: every fetch for (language, namespace) goes to the hashed path of its
\* manifest entry when there is one, and to
\* {localesPath}/{language}/{namespace}.json when there is none.
C9_ManifestPrecedence ==
    \A id \in DOMAIN batches : \A i \in 1..batches[id].index :
        LET lang == batches[id].language
            ns == batches[id].namespaces[i]
        IN  Fetch(id, lang, ns).url = ManifestRuleUrl(lang, ns)

\* C9 witness: one fetch was issued for a pair with a manifest entry and one
\* for a pair without.
C9_Witness ==
    /\ \E f \in Fetches : ManifestKey(f.language, f.namespace) \in DOMAIN translationManifest
    /\ \E f \in Fetches : ManifestKey(f.language, f.namespace) \notin DOMAIN translationManifest

\* The batches the load effect started, in the order it started them.
EffectBatches ==
    SelectSeq([id \in DOMAIN batches |-> id], LAMBDA id : batches[id].origin = "effect")

\* The load effect is due for language lang, with ns among the loaded
\* namespaces, after it has started k batches.
SwitchPending(k, lang, ns) ==
    /\ Len(EffectBatches) = k
    /\ "load" \in pendingEffects
    /\ closure.language = lang
    /\ Has(closure.loadedNamespaces, ns)

\* The batch the load effect started next is for lang, has fetched (lang, ns)
\* and has completed with ns Loaded or FallenBack.
SwitchLoaded(k, lang, ns) ==
    /\ Len(EffectBatches) > k
    /\ LET id == EffectBatches[k + 1]
       IN  /\ batches[id].language = lang
           /\ batches[id].pc = "done"
           /\ ns \in DOMAIN batches[id].newTranslations
           /\ \E f \in Fetches :
                 f.batch = id /\ f.language = lang /\ f.namespace = ns

C11_DefaultSwitchResets ==
    [][(closure.language = defaultLanguage /\ LoadEffect)
       => (/\ translations' = defaultTranslations
           /\ Fetches' = Fetches
           /\ batches' = batches)]_vars

\* C11 witness: data of a non-default language was merged into translations,
\* the language was switched to the default, and translations is the default
\* bundle again.
C11_Witness ==
    /\ switches > 0
    /\ Rendered
    /\ language = defaultLanguage
    /\ translations = defaultTranslations
    /\ \E id \in DOMAIN batches :
          /\ batches[id].pc = "done"
          /\ "common" \in DOMAIN batches[id].newTranslations
          /\ "common" \notin batches[id].fallenBack

\* C12: a failed fetch leaves its batch running on to the next namespace, a
\* completed batch has an entry for every namespace it was given, and at its
\* completion the data of every successfully fetched namespace is in
\* translations.
C12_FailureIsolated ==
    [][\A id \in DOMAIN batches : \A outcome \in Outcomes :
          Settle(id, outcome) =>
             /\ (outcome # "ok" /\ batches[id].index < Len(batches[id].namespaces))
                => /\ batches'[id].pc = "fetch"
                   /\ batches'[id].index = batches[id].index + 1
             /\ batches'[id].pc = "done"
                => /\ DOMAIN batches'[id].newTranslations = Range(batches[id].namespaces)
                   /\ \A ns \in Range(batches[id].namespaces) \ batches'[id].fallenBack :
                         /\ ns \in DOMAIN translations'
                         /\ translations'[ns] = Remote[<<batches[id].language, ns>>]]_vars

\* C12 witness: a batch of two namespaces has completed, the fetch of its
\* first namespace failed, and the data fetched for its second is in
\* translations.
C12_Witness ==
    \E id \in DOMAIN batches :
        /\ batches[id].pc = "done"
        /\ Len(batches[id].namespaces) = 2
        /\ batches[id].namespaces[1] \in batches[id].fallenBack
        /\ batches[id].namespaces[2] \notin batches[id].fallenBack
        /\ Get(translations, batches[id].namespaces[2])
              = Remote[<<batches[id].language, batches[id].namespaces[2]>>]

\* C13: the step in which a fetch fails, by a network error, a response that
\* is not 2xx or a parse error, writes the failure to the console.
C13_EveryFailureLogged ==
    [][\A id \in DOMAIN batches : \A outcome \in Outcomes \ {"ok"} :
          Settle(id, outcome) =>
              console' = <<FailedToLoad(batches[id].namespaces[batches[id].index])>>]_vars

\* The characters of the keys and of the translated strings.
Chars ==
    {"n", "b", "s", "z", "q", "h", ".", "0", "l", "e", "g", "t",
     "B", "k", "S", "v", "A", "R", "a", "H", "o"}

\* A JavaScript string, as opposed to a call that did not return one.
IsReturnedString(r) == \A i \in DOMAIN r : r[i] \in Chars

\* C14: for every key and namespace, and whatever the captured translations
\* hold (null in place of a namespace's object or of a node on the path
\* included), a call of t returns a string: it is computed from the captured
\* values alone, with no fetch awaited, and nothing is thrown.
C14_TAlwaysReturnsString ==
    lastCall.fn = "t" => IsReturnedString(lastCall.out)

\* C14 witness: t was called for a namespace that holds null, which makes
\* value[k] throw a TypeError, and returned the key.
C14_Witness ==
    /\ lastCall.fn = "t"
    /\ lastCall.args = <<(<<"user">>), (<<"h">>), Omitted>>
    /\ closure.translations["user"] = JNull
    /\ lastCall.out = <<"h">>

\* C15: once the persist effect of the last render has run and that render
\* saw the current language, which every quiescent state satisfies, right after
\* initialization and after every setLanguage(L), the stored item equals the
\* current language.
C15_StoredLanguageIsCurrent ==
    ("persist" \notin pendingEffects /\ closure.language = language)
    => storage = language

\* C15 witness: setLanguage("fr") was called, fr being a language the
\* initialization never takes from storage, and the quiescent state stores fr.
C15_Witness ==
    /\ switches > 0
    /\ Rendered
    /\ language = "fr"
    /\ storage = "fr"

\* The provider is mounted and nothing has happened yet: no effect has run.
AtInitialization == switches = 0 /\ pendingEffects = {"persist", "load"}

\* C16: at initialization the language is the stored value exactly when there
\* is one, not empty, that isSupportedLanguage accepts, and the default
\* language in every other case.
C16_InitialLanguage ==
    AtInitialization =>
        LET usable == storage \notin {NoItem, ""} /\ isSupportedLanguage(storage)
        IN  /\ usable => language = storage
            /\ ~usable => language = defaultLanguage
            /\ (language = storage) <=> usable

\* C16 witness: storage holds fr, which isSupportedLanguage rejects, and the
\* provider starts in the default language.
C16_Witness ==
    /\ AtInitialization
    /\ storage = "fr"
    /\ language = defaultLanguage

\* C17: a call of useTranslation with no provider above throws, with no
\* loadNamespaces call scheduled and nothing returned; with a provider it
\* returns and throws nothing.
C17_ThrowsWithoutProvider ==
    lastCall.fn = "useTranslation" =>
        IF lastCall.args[1] = NoContext
        THEN /\ lastCall.threw
             /\ lastCall.requested = <<>>
             /\ ~lastCall.returned
        ELSE ~lastCall.threw /\ lastCall.returned

\* C17 witness: the hook was called with no provider above and threw.
C17_Witness ==
    /\ lastCall.fn = "useTranslation"
    /\ lastCall.args[1] = NoContext
    /\ lastCall.threw

\* C18: the t of useTranslation(namespaces) returns what the lookup in the
\* explicitly passed namespace returns, and with no namespace passed what the
\* lookup in the first namespace of the hook's list returns, whatever the
\* order in which the namespaces were loaded.
C18_HookNamespace ==
    lastCall.fn = "t" =>
        LET namespaces == lastCall.args[1]
            key == lastCall.args[2]
            namespace == lastCall.args[3]
        IN  lastCall.out =
                Lookup(closure.translations, key,
                       IF namespace = Omitted THEN Head(namespaces) ELSE namespace)

\* C18 witness: common was loaded before user, and the t of
\* useTranslation(["user"]) resolves "h" in user, to "Ho".
C18_Witness ==
    /\ closure.loadedNamespaces = <<"common", "user">>
    /\ lastCall.fn = "t"
    /\ lastCall.args = <<(<<"user">>), (<<"h">>), Omitted>>
    /\ lastCall.out = <<"H", "o">>

\* The eight-digit hashes of the contents.
Hashes == {md5Hex(bytes)[1] : bytes \in Contents}

\* C19: after hashTranslations, for every {language}/{namespace}.json of the
\* locales directory the manifest has the entry "{language}/{namespace}" with
\* the value {language}/{namespace}.{hash}.json, that file is in the hashed
\* directory with the bytes of the source, and the manifest has no other
\* entry (its build time aside).
C19_ManifestMirrorsLocales ==
    lastCall.fn = "hashTranslations" =>
        LET nsOf(file) == SubSeq(file, 1, Len(file) - 1)
            keyOf(lang, file) == <<lang, "/">> \o nsOf(file)
        IN  /\ \A lang \in langDirs : \A file \in jsonFiles(lang) :
                  /\ keyOf(lang, file) \in DOMAIN tsManifest
                  /\ \E hash \in Hashes :
                        LET name == nsOf(file) \o <<".", hash, ".json">>
                        IN  /\ tsManifest[keyOf(lang, file)] = <<lang, "/">> \o name
                            /\ lang \in DOMAIN hashed
                            /\ name \in DOMAIN hashed[lang]
                            /\ hashed[lang][name].bytes
                                  = locales[lang].entries[file].bytes
            /\ DOMAIN tsManifest
                  = {keyOf(src[1], src[2]) :
                        src \in {x \in langDirs \X FileNames : x[2] \in jsonFiles(x[1])}}

\* The files of the locales directory, as <<language, file name>>.
LocaleFiles ==
    {src \in langDirs \X FileNames : src[2] \in DOMAIN locales[src[1]].entries}

\* C20: two files have the same hash when they have the same bytes, whatever
\* their names, directories and modification times, and different hashes when
\* their bytes differ.
C20_HashOfContentOnly ==
    \A p, q \in LocaleFiles :
        (locales[p[1]].entries[p[2]].bytes = locales[q[1]].entries[q[2]].bytes)
        <=> (generateHash(p[1], p[2]) = generateHash(q[1], q[2]))

\* The hashed copy of a source file: its name without the first ".json",
\* the first eight digits of the digest of its bytes, and its bytes.
IsHashedCopy(lang, name, file) ==
    /\ name = replaceJson(file) \o <<".", md5Hex(locales[lang].entries[file].bytes)[1], ".json">>
    /\ hashed[lang][name].bytes = locales[lang].entries[file].bytes

RECURSIVE Leaves(_)
Leaves(entries) ==
    UNION {LET key == entries[i][1]
               value == entries[i][2]
           IN  IF value.type = "object"
               THEN {<<(<<key>> \o leaf[1]), leaf[2]>> : leaf \in Leaves(value.entries)}
               ELSE {<<(<<key>>), value.chars>>} : i \in DOMAIN entries}

\* A line without the spaces it begins with.
RECURSIVE Unindent(_)
Unindent(line) ==
    IF line # <<>> /\ Head(line) = " " THEN Unindent(Tail(line)) ELSE line

EndsWith(chars, suffix) ==
    /\ Len(suffix) <= Len(chars)
    /\ SubSeq(chars, Len(chars) - Len(suffix) + 1, Len(chars)) = suffix

Letters ==
    {"a", "b", "c", "d", "e", "f", "g", "h", "i", "j", "k", "l", "m", "n",
     "o", "p", "q", "r", "s", "t", "u", "v", "w", "x", "y", "z", "A", "B",
     "C", "D", "E", "F", "G", "H", "I", "J", "K", "L", "M", "N", "O", "P",
     "Q", "R", "S", "T", "U", "V", "W", "X", "Y", "Z"}

\* A name that can be written as it is as the name of a property of a
\* TypeScript interface: an identifier, or a number.
IsPropertyName(name) ==
    /\ name # <<>>
    /\ \A i \in DOMAIN name : name[i] \in Letters \cup DOMAIN Digit \cup {"_", "$"}
    /\ name[1] \in DOMAIN Digit => \A i \in DOMAIN name : name[i] \in DOMAIN Digit

\* A line of the body of an interface: the end of a nested object, a property
\* of type string, or the beginning of a nested object, with the text that
\* stands for the name of the property.
SchemaLine(line) ==
    LET body == Unindent(line)
    IN  IF body = <<"}", ";">> THEN [kind |-> "close", name |-> <<>>]
        ELSE IF EndsWith(body, <<":", " ", "s", "t", "r", "i", "n", "g", ";">>)
        THEN [kind |-> "leaf", name |-> SubSeq(body, 1, Len(body) - 9)]
        ELSE [kind |-> "open", name |-> SubSeq(body, 1, Len(body) - 3)]

\* The paths to the properties of type string that the lines from i on
\* declare, inside the nested objects named by stack.  A line whose name is
\* not a property name declares nothing.
RECURSIVE SchemaPaths(_, _, _)
SchemaPaths(lines, i, stack) ==
    IF i > Len(lines) THEN {}
    ELSE LET l == SchemaLine(lines[i])
         IN  CASE l.kind = "close" ->
                    SchemaPaths(lines, i + 1, SubSeq(stack, 1, Len(stack) - 1))
               [] l.kind = "open" ->
                    SchemaPaths(lines, i + 1, Append(stack, l.name))
               [] l.kind = "leaf" ->
                    (IF \A j \in 1..(Len(stack) + 1) :
                           IsPropertyName(Append(stack, l.name)[j])
                     THEN {Append(stack, l.name)} ELSE {})
                    \cup SchemaPaths(lines, i + 1, stack)

\* The string whose literal begins before position i: its characters, and
\* the position after the closing quotation mark.
RECURSIVE ReadString(_, _)
ReadString(chars, i) ==
    IF chars[i] = "\""
    THEN [chars |-> <<>>, next |-> i + 1]
    ELSE IF chars[i] = "\\"
    THEN LET rest == ReadString(chars, i + 2)
         IN  [chars |-> <<chars[i + 1]>> \o rest.chars, next |-> rest.next]
    ELSE LET rest == ReadString(chars, i + 1)
         IN  [chars |-> <<chars[i]>> \o rest.chars, next |-> rest.next]

\* A line inside an object literal: the end of a nested object, or a member
\* "name": followed by a string, by {} or by the beginning of an object.
LiteralLine(line) ==
    LET body == Unindent(line)
    IN  IF body[1] = "}" THEN [kind |-> "close", name |-> <<>>, value |-> <<>>]
        ELSE LET name == ReadString(body, 2)
                 rest == SubSeq(body, name.next + 2, Len(body))
             IN  IF rest[1] = "\""
                 THEN [kind |-> "leaf", name |-> name.chars,
                       value |-> ReadString(rest, 2).chars]
                 ELSE IF Len(rest) >= 2 /\ rest[2] = "}"
                 THEN [kind |-> "empty", name |-> name.chars, value |-> <<>>]
                 ELSE [kind |-> "open", name |-> name.chars, value |-> <<>>]

\* The leaves of the object whose members are on the lines from i on:
\* <<path of names, characters>>.
RECURSIVE LiteralLeaves(_, _, _)
LiteralLeaves(lines, i, stack) ==
    IF i > Len(lines) THEN {}
    ELSE LET l == LiteralLine(lines[i])
         IN  CASE l.kind = "close" ->
                    LiteralLeaves(lines, i + 1, SubSeq(stack, 1, Len(stack) - 1))
               [] l.kind = "open" ->
                    LiteralLeaves(lines, i + 1, Append(stack, l.name))
               [] l.kind = "empty" -> LiteralLeaves(lines, i + 1, stack)
               [] l.kind = "leaf" ->
                    {<<Append(stack, l.name), l.value>>}
                    \cup LiteralLeaves(lines, i + 1, stack)

\* The .json files of a directory: <<namespace, entries of the parsed file>>.
NamespaceFiles(dir) ==
    {<<SubSeq(dir[i][1], 1, Len(dir[i][1]) - 1), dir[i][2].entries>> :
        i \in {j \in DOMAIN dir : dir[j][1][Len(dir[j][1])] = ".json"}}

\* The first half of C21: the object literal generateDefaultTranslations
\* writes has, under each namespace, the leaves of the namespace's file and
\* no other, each at its key path with its characters.
C21_LeavesPreserved ==
    lastCall.fn = "generateDefaultTranslations" =>
        LiteralLeaves(SubSeq(lastCall.out, 2, Len(lastCall.out) - 1), 1, <<>>)
           = UNION {{<<(<<file[1]>> \o leaf[1]), leaf[2]>> : leaf \in Leaves(file[2])} :
                       file \in NamespaceFiles(lastCall.args[1])}

\* The second half of C21: in the interface generateTranslationTypes writes
\* for a namespace, every key path to a string leaf of the namespace's file
\* is the path of a property of type string.
C21_PathsInSchema ==
    lastCall.fn = "generateTranslationTypes" =>
        \A file \in NamespaceFiles(lastCall.args[1]) :
            \E i \in DOMAIN lastCall.out :
                /\ lastCall.out[i][1] = file[1]
                /\ {leaf[1] : leaf \in Leaves(file[2])}
                      \subseteq SchemaPaths(lastCall.out[i][2], 1, <<>>)

\* C21: for every nested JSON dictionary with string leaves,
\* generateDefaultTranslations reproduces every leaf unchanged at its key
\* path, and generateTranslationTypes emits a property for every key at every
\* level, so that every path to a string leaf is in the schema.
C21_LeavesAndPathsPreserved == C21_LeavesPreserved /\ C21_PathsInSchema

\* The second half of C21 for the files whose keys are all property names.
C21_PathsOfPropertyNames ==
    (/\ lastCall.fn = "generateTranslationTypes"
     /\ \A file \in NamespaceFiles(lastCall.args[1]) :
           \A leaf \in Leaves(file[2]) :
              \A j \in DOMAIN leaf[1] : IsPropertyName(leaf[1][j]))
    => C21_PathsInSchema

\* The run on a common.json that is {"first-name": "N"}: the line written for
\* the key is "  first-name: string;".
C21_HyphenKey ==
    /\ lastCall.fn = "generateTranslationTypes"
    /\ lastCall.args[1] = <<(<<(<<"common", ".json">>), JDict(HyphenFile)>>)>>
    /\ lastCall.out[1][2] = <<<<" ", " ", "f", "i", "r", "s", "t", "-", "n", "a", "m", "e", ":", " ", "s", "t", "r", "i", "n", "g", ";">>>>

\* The placeholder of a name, as it is written in a text.
Placeholder(name) == <<"{", "{">> \o name \o <<"}", "}">>

\* Whether the piece stands in the text at position i, character by
\* character.
OccursAt(piece, text, i) ==
    /\ i + Len(piece) - 1 <= Len(text)
    /\ SubSeq(text, i, i + Len(piece) - 1) = piece

\* The text from position i on with every placeholder of a variable replaced
\* by the string of its value, and everything else as it is.
RECURSIVE PlaceholdersFilled(_, _, _)
PlaceholdersFilled(text, variables, i) ==
    IF i > Len(text) THEN <<>>
    ELSE LET here == {n \in DOMAIN variables :
                         OccursAt(Placeholder(variables[n][1]), text, i)}
         IN  IF here # {}
             THEN LET n == CHOOSE m \in here : TRUE
                  IN  StringOf(variables[n][2])
                      \o PlaceholdersFilled(text, variables,
                                            i + Len(Placeholder(variables[n][1])))
             ELSE <<text[i]>> \o PlaceholdersFilled(text, variables, i + 1)

\* C22: interpolate(text, variables) is the text with every {{k}} of a key k
\* of variables replaced by String(variables[k]), the placeholders of other
\* names being left as they are.
C22_InterpolateFillsPlaceholders ==
    lastCall.fn = "interpolate" =>
        lastCall.out = PlaceholdersFilled(lastCall.args[1], lastCall.args[2], 1)

\* C22 with the values in which "$" is followed by "$" or "&" and the names
\* that are not plain letters set aside: what is left of the claim holds.
C22_PlainNamesAndValues ==
    (/\ lastCall.fn = "interpolate"
     /\ \A n \in DOMAIN lastCall.args[2] :
           /\ lastCall.args[2][n][1] # <<".">>
           /\ lastCall.args[2][n][2] \notin {JStr(<<"$", "$">>), JStr(<<"$", "&">>)})
    => lastCall.out = PlaceholdersFilled(lastCall.args[1], lastCall.args[2], 1)

\* C22 at work: interpolate("Hi {{n}}!", { n: "$&" }) returned "Hi {{n}}!",
\* not "Hi $&!".
C22_DollarValue ==
    /\ lastCall.fn = "interpolate"
    /\ lastCall.args = <<<<"H", "i", " ", "{", "{", "n", "}", "}", "!">>, <<(<<(<<"n">>), JStr(<<"$", "&">>)>>)>>>>
    /\ lastCall.out = <<"H", "i", " ", "{", "{", "n", "}", "}", "!">>

\* C23: formatPlural(count, one, other) is one when count is 1; for every
\* other count, 0 and the negative ones included, it is other with every
\* {{count}} replaced by the count.
C23_FormatPlural ==
    lastCall.fn = "formatPlural" =>
        LET count == lastCall.args[1]
            one == lastCall.args[2]
            other == lastCall.args[3]
        IN  IF count = 1 THEN lastCall.out = one
            ELSE lastCall.out
                    = PlaceholdersFilled(other, <<(<<(<<"c", "o", "u", "n", "t">>), JNum(count)>>)>>, 1)

\* C23 witness: formatPlural(-12, "item", "{{count}}/{{count}}") returned
\* "-12/-12".
C23_Witness ==
    /\ lastCall.fn = "formatPlural"
    /\ lastCall.args = <<0 - 12, <<"i", "t", "e", "m">>, <<"{", "{", "c", "o", "u", "n", "t", "}", "}", "/", "{", "{", "c", "o", "u", "n", "t", "}", "}">>>>
    /\ lastCall.out = <<"-", "1", "2", "/", "-", "1", "2">>

\* C29: isSupportedLanguage(c) is true exactly when an entry has the code c,
\* exactly when getLanguageByCode(c) is defined (and then it is an entry with
\* that code), and exactly when c is among getSupportedLanguageCodes(), which
\* lists the codes of the entries in their order; getDefaultLanguage returns
\* the default given.
C29_LanguageConfigHelper ==
    lastCall.fn = "createLanguageConfig" =>
        LET languages == lastCall.args[1]
            codes == lastCall.getSupportedLanguageCodes
            c == lastCall.lang
            hasEntry == \E i \in DOMAIN languages : languages[i].code = c
        IN  /\ lastCall.isSupportedLanguage <=> hasEntry
            /\ hasEntry <=> lastCall.getLanguageByCode # Undefined
            /\ hasEntry => (/\ lastCall.getLanguageByCode \in Range(languages)
                            /\ lastCall.getLanguageByCode.code = c)
            /\ hasEntry <=> (\E i \in DOMAIN codes : codes[i] = c)
            /\ Len(codes) = Len(languages)
            /\ \A i \in DOMAIN languages : codes[i] = languages[i].code
            /\ lastCall.getDefaultLanguage = lastCall.args[2]

\* C29 witness: a helper made of three entries, two of them with the code es,
\* and "de" as default: es is supported and listed twice, its first entry is
\* found, and the default is de although no entry has it.
C29_Witness ==
    /\ lastCall.fn = "createLanguageConfig"
    /\ lastCall.args = <<(<<LanguageConfig("es", "Castilian", "Castellano"),
                           LanguageConfig("en", "English", "English"),
                           LanguageConfig("es", "Spanish", "Espanol")>>), "de">>
    /\ lastCall.lang = "es"
    /\ lastCall.isSupportedLanguage
    /\ lastCall.getSupportedLanguageCodes = <<"es", "en", "es">>
    /\ lastCall.getLanguageByCode = LanguageConfig("es", "Castilian", "Castellano")
    /\ lastCall.getDefaultLanguage = "de"

\* C24: a call made for language L1 that completes when the language is
\* another one still merges everything it fetched into translations.
C24_StaleResultMerged ==
    [][\A id \in DOMAIN batches : \A outcome \in Outcomes :
          (/\ language # batches[id].language
           /\ batches'[id].pc = "done"
           /\ Settle(id, outcome))
          => \A ns \in DOMAIN batches'[id].newTranslations :
                /\ ns \in DOMAIN translations'
                /\ translations'[ns] = batches'[id].newTranslations[ns]]_vars

\* C24 witness: no fetch is outstanding, the language was switched from es to
\* another language, the switch is rendered, and translations holds the data
\* of es/common.
C24_Witness ==
    /\ AllSettled
    /\ Rendered
    /\ switches > 0
    /\ language # "es"
    /\ Get(translations, "common") = Remote[<<"es", "common">>]

\* C25: every namespace that has been fetched or has an entry in translations
\* is in loadedNamespaces, and no step takes a namespace out of
\* loadedNamespaces.
C25_NamespaceLifecycle ==
    /\ [](/\ \A f \in Fetches : Has(loadedNamespaces, f.namespace)
          /\ \A ns \in DOMAIN translations : Has(loadedNamespaces, ns))
    /\ [][Range(loadedNamespaces) \subseteq Range(loadedNamespaces')]_vars

\* C25 witness: user, not in the default bundle, was requested, fetched and
\* loaded.
C25_Witness ==
    /\ Has(loadedNamespaces, "user")
    /\ \E f \in Fetches : f.namespace = "user" /\ f.language = "es"
    /\ Get(translations, "user") = Remote[<<"es", "user">>]

C27_LoadingEnds == <>[](isLoading = FALSE)

\* C27 witness: every call has run to its end, some fetch failed, and
\* isLoading is false.
C27_Witness ==
    /\ batches # <<>>
    /\ AllSettled
    /\ \E id \in DOMAIN batches : batches[id].fallenBack # {}
    /\ isLoading = FALSE

\* C30: a call keeps the language it was started with, which is the language
\* of the render it was made from, and every fetch it issues is for that
\* language, whatever setLanguage has done since.
C30_BatchKeepsLanguage ==
    [][batches' # batches =>
          /\ \A id \in DOMAIN batches : batches'[id].language = batches[id].language
          /\ \A id \in DOMAIN batches' \ DOMAIN batches :
                batches'[id].language = closure.language
          /\ \A f \in Fetches' \ Fetches :
                /\ f.language = batches'[f.batch].language
                /\ f.url = FetchUrl(batches'[f.batch].language, f.namespace)]_vars

\* C30 witness: the first fetch of a call made for es has just failed, after
\* the language was set to fr, and the call is fetching its second namespace
\* for es.
C30_Witness ==
    /\ Len(batches) = 1
    /\ batches[1].language = "es"
    /\ batches[1].index = 2
    /\ batches[1].pc = "fetch"
    /\ console = <<FailedToLoad("common")>>
    /\ language = "fr"
    /\ \E f \in Fetches : f.namespace = "user" /\ f.language = "es"

\* C31: while the language stays the one the provider started with, a
\* namespace that holds the data loaded for that language keeps it: no later
\* step, the completion of a second fetch of the namespace that failed
\* included, puts anything else in its place.
C31_LoadedDataStays ==
    [][translations' # translations =>
          \A ns \in Namespaces :
              (/\ switches = 0
               /\ <<language, ns>> \in DOMAIN Remote
               /\ ns \in DOMAIN translations
               /\ translations[ns] = Remote[<<language, ns>>])
              => (/\ ns \in DOMAIN translations'
                  /\ translations'[ns] = translations[ns])]_vars

\* C31 at work: under es, never changed, every call has ended, a fetch of
\* user succeeded and a later one failed, and translations.user holds the
\* fallback defaultTranslations.user, which is undefined.
C31_FallbackOverLoaded ==
    /\ switches = 0
    /\ language = "es"
    /\ AllSettled
    /\ \E id \in DOMAIN batches :
          /\ "user" \in DOMAIN batches[id].newTranslations
          /\ "user" \notin batches[id].fallenBack
    /\ lastFailed["user"] # 0
    /\ Get(translations, "user") = Undefined

\* The step completes the call id: its last fetch settles and the function
\* runs to its end.
Completes(id) ==
    /\ id \in DOMAIN batches
    /\ batches[id].pc = "fetch"
    /\ batches'[id].pc = "done"

\* C32: the results of a call become visible only when the whole call has
\* settled.  A step in which a fetch of the call settles and another is still
\* to come leaves translations as it is, whatever the fetch returned; the
\* step that settles the last one sets, at once, the entry of every namespace
\* of the call to the call's result.  No other step changes translations,
\* but the reset of the load effect under the default language.
C32_BatchAppliedAtOnce ==
    [][/\ translations' # translations =>
             \/ /\ batches' = batches
                /\ closure.language = defaultLanguage
                /\ translations' = defaultTranslations
             \/ \E id \in DOMAIN batches : Completes(id)
       /\ batches' # batches =>
             \A id \in DOMAIN batches :
                 /\ (batches'[id] # batches[id] /\ batches'[id].pc = "fetch")
                       => translations' = translations
                 /\ Completes(id) =>
                       \A ns \in Range(batches[id].namespaces) :
                           /\ ns \in DOMAIN translations'
                           /\ ns \in DOMAIN batches'[id].newTranslations
                           /\ translations'[ns] = batches'[id].newTranslations[ns]]_vars

\* C32 at work: the call of the load effect for common and user under es has
\* the data of common, differing from what translations holds, and waits for
\* user; translations is still the default bundle.
C32_Witness ==
    \E id \in DOMAIN batches :
        /\ batches[id].namespaces = <<"common", "user">>
        /\ batches[id].language = "es"
        /\ batches[id].pc = "fetch"
        /\ batches[id].index = 2
        /\ batches[id].newTranslations = ("common" :> Remote[<<"es", "common">>])
        /\ translations = defaultTranslations
        /\ Remote[<<"es", "common">>] # defaultTranslations["common"]

\* C33: the completion of a call changes translations only at the namespaces
\* of the call: every other entry, present or absent, stays as it was, and so
\* do language and loadedNamespaces.
C33_CompletionFrame ==
    [][batches' # batches =>
          \A id \in DOMAIN batches :
              Completes(id) =>
                  /\ \A ns \in Namespaces \ Range(batches[id].namespaces) :
                        /\ (ns \in DOMAIN translations') = (ns \in DOMAIN translations)
                        /\ Get(translations', ns) = Get(translations, ns)
                  /\ language' = language
                  /\ loadedNamespaces' = loadedNamespaces]_vars

\* C33 at work: the call for user alone has completed with the data of
\* es/user while translations.common, which is not of the call, holds
\* the data loaded before it.
C33_Witness ==
    \E id \in DOMAIN batches :
        /\ batches[id].namespaces = <<"user">>
        /\ batches[id].pc = "done"
        /\ "user" \in DOMAIN translations
        /\ translations["user"] = Remote[<<"es", "user">>]
        /\ translations["common"] = Remote[<<"es", "common">>]
        /\ language = "es"
        /\ Has(loadedNamespaces, "common")

\* No call made for the current language has completed.
NoneCompletedForCurrent ==
    \A id \in DOMAIN batches :
        batches[id].language = language => batches[id].pc # "done"

\* C34: setLanguage(L) for a language L other than the default changes
\* neither translations nor what t reads.  While no call made for L has
\* completed, neither of them holds the data of L for any namespace, and a
\* step under L changes translations only by completing a call issued
\* earlier or by the reset of a load effect that was already scheduled for
\* the default language: until then t returns what it returned before the
\* switch.
C34_SwitchKeepsTranslations ==
    /\ [](\A ns \in Namespaces :
             (/\ language # defaultLanguage
              /\ <<language, ns>> \in DOMAIN Remote
              /\ NoneCompletedForCurrent)
             => /\ Get(translations, ns) # Remote[<<language, ns>>]
                /\ Get(closure.translations, ns) # Remote[<<language, ns>>])
    /\ [][/\ language' # language =>
                /\ translations' = translations
                /\ closure' = closure
          /\ (translations' # translations /\ language # defaultLanguage) =>
                \/ \E id \in DOMAIN batches : Completes(id)
                \/ /\ closure.language = defaultLanguage
                   /\ batches' = batches
                   /\ translations' = defaultTranslations]_vars

\* C34 at work: es was loaded, the language was switched to fr, the switch is
\* rendered and the call of the load effect for fr is waiting for its
\* response: t('n.b', 'common') still returns the es string.
C34_Witness ==
    /\ language = "fr"
    /\ switches = 1
    /\ Rendered
    /\ \E id \in DOMAIN batches :
          /\ batches[id].language = "fr"
          /\ batches[id].origin = "effect"
          /\ batches[id].pc = "fetch"
    /\ NoneCompletedForCurrent
    /\ translations["common"] = Remote[<<"es", "common">>]
    /\ Lookup(closure.translations, <<"n", ".", "b">>, "common") = <<"A", "t">>

\* The fetch of the i-th namespace of call id is among the fetches issued.
Issued(issued, id, i) ==
    \E f \in issued : f.batch = id /\ f.namespace = batches[id].namespaces[i]

\* The fetch of the i-th namespace of call id has settled: the loop has
\* recorded its result.
Settled(id, i) == batches[id].namespaces[i] \in DOMAIN batches[id].newTranslations

\* The fetches issued and not settled.
InFlight(issued) ==
    {f \in issued :
        f.namespace \notin DOMAIN batches[f.batch].newTranslations}

\* C35: within a call the fetches are issued one at a time in the order of
\* its namespace list: the fetch of a namespace has been issued only if the
\* fetches of all the namespaces before it have been issued and have settled,
\* so two fetches in flight at the same time belong to different calls.
C35_SequentialFetches ==
    LET issued == Fetches
        inFlight == InFlight(issued)
    IN  /\ \A id \in DOMAIN batches :
              \A i \in 1..Len(batches[id].namespaces) :
                  /\ Settled(id, i) => Issued(issued, id, i)
                  /\ Issued(issued, id, i) =>
                        \A j \in 1..(i - 1) : Issued(issued, id, j) /\ Settled(id, j)
        /\ \A f, g \in inFlight : f.batch = g.batch => f = g

\* C35 at work: the call for common and user has had the response for common
\* and is waiting for user, while a fetch of another call is in flight too.
C35_Witness ==
    \E id, other \in DOMAIN batches :
        /\ id # other
        /\ batches[id].namespaces = <<"common", "user">>
        /\ Issued(Fetches, id, 2)
        /\ Settled(id, 1)
        /\ ~Settled(id, 2)
        /\ \E f, g \in InFlight(Fetches) : f.batch = id /\ g.batch = other

\* The keys the default bundle has, with their namespace.
DefaultBundleKeys ==
    UNION {IF LeadsToString(Get(defaultTranslations, k[1]), k[2]) THEN {k} ELSE {} :
              k \in Namespaces \X Keys}

\* C36: t has no fallback per key.  When translations holds data for the
\* namespace (a truthy value), a key the default bundle has for the namespace
\* and that leads to nothing in that data is returned as it is, and for
\* every key the default bundle has the result is the one the walk of that
\* data alone gives.
C36_NoPerKeyFallback ==
    \A k \in DefaultBundleKeys :
        LET ns == k[1]
            key == k[2]
            own == Get(closure.translations, ns)
            found == Walk(own, Split(key))
            result == Lookup(closure.translations, key, ns)
        IN  Truthy(own) =>
                /\ NodeAt(own, Split(key)) = Undefined => result = key
                /\ result = IF IsString(found) THEN found.chars ELSE key

\* C36 at work: under es the data of es/common, which has no entry s, is
\* loaded and rendered; the default bundle has common.s = "Sv", and
\* t('s', 'common') returns 's'.
C36_Witness ==
    /\ closure.language = "es"
    /\ closure.translations["common"] = Remote[<<"es", "common">>]
    /\ \E id \in DOMAIN batches :
          /\ batches[id].pc = "done"
          /\ batches[id].language = "es"
          /\ "common" \in DOMAIN batches[id].newTranslations
          /\ "common" \notin batches[id].fallenBack
    /\ LeadsToString(defaultTranslations["common"], <<"s">>)
    /\ NodeAt(closure.translations["common"], Split(<<"s">>)) = Undefined
    /\ Lookup(closure.translations, <<"s">>, "common") = <<"s">>

\* C37: the language setLanguage was given is rendered and stored whether or
\* not isSupportedLanguage accepts it: once the persist effect of a render
\* has run the stored item is the language of that render.  The stored item
\* is always one a session can start with, and the session that starts with
\* it takes it when the predicate accepts it and the default language when
\* it does not.
C37_UncheckedSetAndPersist ==
    /\ "persist" \notin pendingEffects => storage = closure.language
    /\ storage \in {NoItem, ""} \cup Languages
    /\ getInitialLanguage(storage) =
          IF isSupportedLanguage(storage) THEN storage ELSE defaultLanguage

\* C37 at work: setLanguage("fr"), which isSupportedLanguage rejects, was
\* called; fr is the current language and the stored item, and a session
\* starting from this storage starts with the default language.
C37_Witness ==
    /\ switches > 0
    /\ ~isSupportedLanguage("fr")
    /\ language = "fr"
    /\ closure.language = "fr"
    /\ "persist" \notin pendingEffects
    /\ storage = "fr"
    /\ getInitialLanguage(storage) = defaultLanguage
    /\ defaultLanguage # "fr"

\* The session started with a stored language other than the default and the
\* language was not changed since.
StartedNonDefault == switches = 0 /\ language # defaultLanguage

\* C38: in a session that started with a stored, supported language L other
\* than the default, the load effect of the mount starts, unasked, one call
\* for L whose namespaces are those of the default bundle, and there is no
\* other call of the effect; until that call has completed, translations and
\* t give the default bundle's values for those namespaces.
C38_InitialBatch ==
    StartedNonDefault =>
        /\ language = storage \/ "persist" \in pendingEffects
        /\ isSupportedLanguage(language)
        /\ IF "load" \in pendingEffects
           THEN EffectBatches = <<>>
           ELSE /\ Len(EffectBatches) = 1
                /\ batches[EffectBatches[1]].language = language
                /\ batches[EffectBatches[1]].namespaces = DefaultKeys
                /\ \E f \in Fetches :
                      f.batch = EffectBatches[1] /\ f.namespace = DefaultKeys[1]
                /\ \A f \in Fetches :
                      f.batch = EffectBatches[1] =>
                          /\ f.language = language
                          /\ f.namespace \in Range(DefaultKeys)
        /\ (EffectBatches = <<>> \/ batches[EffectBatches[1]].pc # "done") =>
              \A ns \in Range(DefaultKeys) :
                  /\ Get(translations, ns) = defaultTranslations[ns]
                  /\ \A key \in Keys :
                        Lookup(closure.translations, key, ns)
                            = Lookup(defaultTranslations, key, ns)

\* C38 at work: the session started with es stored, nothing was requested,
\* the call of the mount's load effect is waiting for es/common, and
\* t('n.b', 'common') returns the default "Bk".
C38_Witness ==
    /\ StartedNonDefault
    /\ language = "es"
    /\ Requests = {}
    /\ Len(EffectBatches) = 1
    /\ batches[EffectBatches[1]].pc = "fetch"
    /\ \E f \in Fetches : f.language = "es" /\ f.namespace = "common"
    /\ Lookup(closure.translations, <<"n", ".", "b">>, "common") = <<"B", "k">>

\* The namespace of the file {namespace}.json: its name without the
\* extension.
NamespaceOf(file) == SubSeq(file, 1, Len(file) - 1)

\* The runtime, given the generated manifest, fetches {namespace}.json of
\* lang from the path of a hashed copy of it that is in the hashed directory.
FetchesHashedCopy(lang, file) ==
    \E hash \in Hashes :
        LET name == NamespaceOf(file) \o <<".", hash, ".json">>
        IN  /\ FetchUrlWith(tsManifest, lang, NamespaceOf(file))
                  = <<localesHashedPath, "/", lang, "/">> \o name
            /\ lang \in DOMAIN hashed
            /\ name \in DOMAIN hashed[lang]
            /\ hashed[lang][name].bytes = locales[lang].entries[file].bytes

\* C39: after hashTranslations, for every {language}/{namespace}.json it
\* processed, the URL the runtime computes for (language, namespace) from the
\* generated manifest is the path of the hashed copy,
\* {hashed root}/{language}/{namespace}.{hash}.json, and the generated
\* manifest has no _buildTime entry.
C39_RuntimeUrlIsHashedCopy ==
    lastCall.fn = "hashTranslations" =>
        /\ \A lang \in langDirs : \A file \in jsonFiles(lang) :
              FetchesHashedCopy(lang, file)
        /\ BuildTimeKey \in DOMAIN manifest
        /\ BuildTimeKey \notin DOMAIN tsManifest

\* C39 for the files whose name has ".json" only as its extension, and the
\* build time, which holds.
C39_SingleExtension ==
    lastCall.fn = "hashTranslations" =>
        /\ \A lang \in langDirs : \A file \in jsonFiles(lang) :
              replaceJson(file) = NamespaceOf(file) => FetchesHashedCopy(lang, file)
        /\ BuildTimeKey \in DOMAIN manifest
        /\ BuildTimeKey \notin DOMAIN tsManifest

\* C39 failing: after hashTranslations over en/my.jsonld.json, the runtime
\* finds no entry for en/my.jsonld in the generated manifest and fetches the
\* unhashed file from localesPath.
C39_FallsBackToUnhashed ==
    /\ lastCall.fn = "hashTranslations"
    /\ <<"my", ".json", "ld", ".json">> \in jsonFiles("en")
    /\ FetchUrlWith(tsManifest, "en", <<"my", ".json", "ld">>)
          = <<localesPath, "/", "en", "/", "my", ".json", "ld", ".json">>
    /\ FetchUrlWith(tsManifest, "en", <<"common">>)[1] = localesHashedPath

====
